---- MODULE Spec2Model ----
(***************************************************************************)
(* A model of turkish_webcolors.py: the colour name tables, the format     *)
(* normalizers, the pairwise converters and the two HTML5 colour parsing   *)
(* algorithms.                                                             *)
(*                                                                         *)
(* Text is a sequence of Unicode code points (35 is '#', 37 is '%',        *)
(* 48..57 are '0'..'9', 65..70 are 'A'..'F', 97..102 are 'a'..'f').  A      *)
(* Python dict is a sequence of <<key, value>> pairs with distinct keys,   *)
(* in insertion order.  A call returns [ok |-> TRUE, val |-> v] or raises, *)
(* [ok |-> FALSE, err |-> <exception class>].                              *)
(***************************************************************************)
EXTENDS Integers, Sequences, FiniteSets, TLC

VARIABLES iteration, call, result, pc

vars == <<iteration, call, result, pc>>

----------------------------------------------------------------------------
(* Python values and dicts                                                 *)

Ok(v) == [ok |-> TRUE, val |-> v]

Raise(e) == [ok |-> FALSE, err |-> e]

Missing == <<-1>>

Min(S) == CHOOSE m \in S : \A x \in S : m <= x

Max(S) == CHOOSE m \in S : \A x \in S : x <= m

\* the position of key k in dict d, 0 when it is absent
Find(d, k) ==
  LET at == {i \in 1..Len(d) : d[i][1] = k}
  IN IF at = {} THEN 0 ELSE Min(at)

\* d.get(k): the value stored under k, or None (Missing)
Get(d, k) == LET i == Find(d, k) IN IF i = 0 THEN Missing ELSE d[i][2]

\* d[k] = v: an existing key keeps its position and takes the new value
DictSet(d, k, v) ==
  LET i == Find(d, k)
  IN IF i = 0 THEN Append(d, <<k, v>>)
     ELSE [d EXCEPT ![i] = <<k, v>>]

\* a dict built from (key, value) pairs taken in order: a key stands where
\* it first occurs and holds the value of its last occurrence
DictLiteral(items) ==
  LET n == Len(items)
      IsFirst(i) == \A j \in 1..(i - 1) : items[j][1] # items[i][1]
      firsts == SelectSeq([i \in 1..n |-> i], IsFirst)
      LastOf(k) == Max({j \in 1..n : items[j][1] = k})
  IN [p \in 1..Len(firsts) |->
        <<items[firsts[p]][1], items[LastOf(items[firsts[p]][1])][2]>>]

\* d.update(items)
RECURSIVE DictUpdate(_, _, _)
DictUpdate(d, items, i) ==
  IF i > Len(items) THEN d
  ELSE DictUpdate(DictSet(d, items[i][1], items[i][2]), items, i + 1)

Reverse(s) == [i \in 1..Len(s) |-> s[Len(s) + 1 - i]]

\* the orders in which d.items() may be walked (CPython 3.7+ walks in
\* insertion order; older interpreters gave no guarantee)
IterationOrders == {"insertion", "reversed"}

Items(d, order) == IF order = "insertion" THEN d ELSE Reverse(d)

Swap(items) == [i \in 1..Len(items) |-> <<items[i][2], items[i][1]>>]

\* {value: key for key, value in d.items()}
_reversedict(d, order) == DictLiteral(Swap(Items(d, order)))

----------------------------------------------------------------------------
(* The name tables                                                         *)

HTML4 == "html4"
CSS2 == "css2"
CSS21 == "css21"
CSS3 == "css3"

SUPPORTED_SPECIFICATIONS == {HTML4, CSS2, CSS21, CSS3}

HTML4_LITERAL ==
  <<
  <<<<99,97,109,103,246,98,101,287,105>>, <<35,48,48,102,102,102,102>>>>,  \* line 69: camg\xf6be\u011fi -> #00ffff
  <<<<115,105,121,97,104,305>>, <<35,48,48,48,48,48,48>>>>,  \* line 70: siyah\u0131 -> #000000
  <<<<109,97,118,105,115,105>>, <<35,48,48,48,48,102,102>>>>,  \* line 71: mavisi -> #0000ff
  <<<<102,117,351,121,97,115,305>>, <<35,102,102,48,48,102,102>>>>,  \* line 72: fu\u015fyas\u0131 -> #ff00ff
  <<<<121,101,351,105,108,105>>, <<35,48,48,56,48,48,48>>>>,  \* line 73: ye\u015fili -> #008000
  <<<<103,114,105,115,105>>, <<35,56,48,56,48,56,48>>>>,  \* line 74: grisi -> #808080
  <<<<108,105,109,101>>, <<35,48,48,102,102,48,48>>>>,  \* line 75: lime -> #00ff00
  <<<<109,97,114,111,111,110>>, <<35,56,48,48,48,48,48>>>>,  \* line 76: maroon -> #800000
  <<<<110,97,118,121>>, <<35,48,48,48,48,56,48>>>>,  \* line 77: navy -> #000080
  <<<<111,108,105,118,101>>, <<35,56,48,56,48,48,48>>>>,  \* line 78: olive -> #808000
  <<<<109,111,114,117>>, <<35,56,48,48,48,56,48>>>>,  \* line 79: moru -> #800080
  <<<<107,305,114,109,305,122,305,115,305>>, <<35,102,102,48,48,48,48>>>>,  \* line 80: k\u0131rm\u0131z\u0131s\u0131 -> #ff0000
  <<<<103,252,109,252,351,252>>, <<35,99,48,99,48,99,48>>>>,  \* line 81: g\xfcm\xfc\u015f\xfc -> #c0c0c0
  <<<<116,101,97,108>>, <<35,48,48,56,48,56,48>>>>,  \* line 82: teal -> #008080
  <<<<98,101,121,97,122,305>>, <<35,102,102,102,102,102,102>>>>,  \* line 83: beyaz\u0131 -> #ffffff
  <<<<115,97,114,305,115,305>>, <<35,102,102,102,102,48,48>>>>   \* line 84: sar\u0131s\u0131 -> #ffff00
  >>

HTML4_NAMES_TO_HEX == DictLiteral(HTML4_LITERAL)

CSS2_NAMES_TO_HEX == HTML4_NAMES_TO_HEX

\* dict(HTML4_NAMES_TO_HEX, orange=u'#ffa500')
CSS21_NAMES_TO_HEX ==
  DictSet(HTML4_NAMES_TO_HEX, <<111,114,97,110,103,101>>, <<35,102,102,97,53,48,48>>)

CSS3_LITERAL ==
  <<
  <<<<99,97,109,103,246,98,101,287,105>>, <<35,102,48,102,56,102,102>>>>,  \* line 113: camg\xf6be\u011fi -> #f0f8ff
  <<<<97,110,116,105,107,32,98,101,121,97,122,305>>, <<35,102,97,101,98,100,55>>>>,  \* line 114: antik beyaz\u0131 -> #faebd7
  <<<<99,97,109,103,246,98,101,287,105>>, <<35,48,48,102,102,102,102>>>>,  \* line 115: camg\xf6be\u011fi -> #00ffff
  <<<<97,107,117,97,109,97,114,105,110,105>>, <<35,55,102,102,102,100,52>>>>,  \* line 116: akuamarini -> #7fffd4
  <<<<97,122,117,114,101,115,105>>, <<35,102,48,102,102,102,102>>>>,  \* line 117: azuresi -> #f0ffff
  <<<<98,101,106,105>>, <<35,102,53,102,53,100,99>>>>,  \* line 118: beji -> #f5f5dc
  <<<<98,105,115,107,252,118,105,115,105>>, <<35,102,102,101,52,99,52>>>>,  \* line 119: bisk\xfcvisi -> #ffe4c4
  <<<<115,105,121,97,104,305>>, <<35,48,48,48,48,48,48>>>>,  \* line 120: siyah\u0131 -> #000000
  <<<<98,97,100,101,109,105>>, <<35,102,102,101,98,99,100>>>>,  \* line 121: bademi -> #ffebcd
  <<<<109,97,118,105,115,105>>, <<35,48,48,48,48,102,102>>>>,  \* line 122: mavisi -> #0000ff
  <<<<98,111,110,100,105,32,109,97,118,105,115,105>>, <<35,48,48,57,53,98,54>>>>,  \* line 123: bondi mavisi -> #0095b6
  <<<<121,101,351,105,109,105>>, <<35,48,48,97,56,54,98>>>>,  \* line 124: ye\u015fimi -> #00a86b
  <<<<101,99,114,117,115,117>>, <<35,99,100,98,48,57,49>>>>,  \* line 125: ecrusu -> #cdb091
  <<<<109,97,118,105,101,102,116,97,108,117,110,117>>, <<35,56,97,50,98,101,50>>>>,  \* line 126: mavieftalunu -> #8a2be2
  <<<<107,97,104,118,101,114,101,110,103,105,115,105>>, <<35,97,53,50,97,50,97>>>>,  \* line 127: kahverengisi -> #a52a2a
  <<<<111,100,117,110,117>>, <<35,100,101,98,56,56,55>>>>,  \* line 128: odunu -> #deb887
  <<<<97,100,97,121,32,109,97,118,105,115,105>>, <<35,53,102,57,101,97,48>>>>,  \* line 129: aday mavisi -> #5f9ea0
  <<<<99,105,120,32,121,101,351,105,108,105>>, <<35,55,102,102,102,48,48>>>>,  \* line 130: cix ye\u015fili -> #7fff00
  <<<<231,105,107,111,108,97,116,97,115,305>>, <<35,100,50,54,57,49,101>>>>,  \* line 131: \xe7ikolatas\u0131 -> #d2691e
  <<<<109,101,114,99,97,110,305>>, <<35,102,102,55,102,53,48>>>>,  \* line 132: mercan\u0131 -> #ff7f50
  <<<<103,97,108,105,98,97,114,100,97,115,305>>, <<35,102,102,48,48,57,48>>>>,  \* line 133: galibardas\u0131 -> #ff0090
  <<<<112,101,121,103,97,109,98,101,114,32,231,105,231,101,287,105>>, <<35,54,52,57,53,101,100>>>>,  \* line 134: peygamber \xe7i\xe7e\u011fi -> #6495ed
  <<<<97,231,305,107,32,115,97,114,305,115,305>>, <<35,102,102,102,56,100,99>>>>,  \* line 135: a\xe7\u0131k sar\u0131s\u0131 -> #fff8dc
  <<<<107,305,122,305,108,305>>, <<35,100,99,49,52,51,99>>>>,  \* line 136: k\u0131z\u0131l\u0131 -> #dc143c
  <<<<115,105,121,97,110,305>>, <<35,48,48,102,102,102,102>>>>,  \* line 137: siyan\u0131 -> #00ffff
  <<<<107,111,121,117,32,109,97,118,105,115,105>>, <<35,48,48,48,48,56,98>>>>,  \* line 138: koyu mavisi -> #00008b
  <<<<115,105,121,97,110,305>>, <<35,48,48,56,98,56,98>>>>,  \* line 139: siyan\u0131 -> #008b8b
  <<<<97,108,116,305,110,305>>, <<35,98,56,56,54,48,98>>>>,  \* line 140: alt\u0131n\u0131 -> #b8860b
  <<<<103,114,105,115,105>>, <<35,97,57,97,57,97,57>>>>,  \* line 141: grisi -> #a9a9a9
  <<<<103,114,105,115,105>>, <<35,97,57,97,57,97,57>>>>,  \* line 142: grisi -> #a9a9a9
  <<<<121,101,351,105,108,105>>, <<35,48,48,54,52,48,48>>>>,  \* line 143: ye\u015fili -> #006400
  <<<<104,97,107,105,115,105>>, <<35,98,100,98,55,54,98>>>>,  \* line 144: hakisi -> #bdb76b
  <<<<109,97,103,101,110,116,97,115,305>>, <<35,56,98,48,48,56,98>>>>,  \* line 145: magentas\u0131 -> #8b008b
  <<<<122,101,121,116,105,110,105>>, <<35,53,53,54,98,50,102>>>>,  \* line 146: zeytini -> #556b2f
  <<<<112,111,114,116,97,107,97,108,305>>, <<35,102,102,56,99,48,48>>>>,  \* line 147: portakal\u0131 -> #ff8c00
  <<<<111,114,107,105,100,101,115,105>>, <<35,57,57,51,50,99,99>>>>,  \* line 148: orkidesi -> #9932cc
  <<<<98,111,114,100,111,115,117>>, <<35,56,98,48,48,48,48>>>>,  \* line 149: bordosu -> #8b0000
  <<<<115,111,109,111,110,117>>, <<35,101,57,57,54,55,97>>>>,  \* line 150: somonu -> #e9967a
  <<<<121,111,115,117,110,117>>, <<35,56,102,98,99,56,102>>>>,  \* line 151: yosunu -> #8fbc8f
  <<<<97,114,100,117,118,97,122,105,32,109,97,118,105,115,105>>, <<35,52,56,51,100,56,98>>>>,  \* line 152: arduvazi mavisi -> #483d8b
  <<<<97,114,100,117,118,97,122,105,32,103,114,105,115,105>>, <<35,50,102,52,102,52,102>>>>,  \* line 153: arduvazi grisi -> #2f4f4f
  <<<<97,114,100,117,118,97,122,105,32,103,114,105,115,105>>, <<35,50,102,52,102,52,102>>>>,  \* line 154: arduvazi grisi -> #2f4f4f
  <<<<97,114,100,117,118,97,122,105,32,116,117,114,107,117,97,122,305>>, <<35,48,48,99,101,100,49>>>>,  \* line 155: arduvazi turkuaz\u0131 -> #00ced1
  <<<<101,102,108,97,116,117,110,117>>, <<35,57,52,48,48,100,51>>>>,  \* line 156: eflatunu -> #9400d3
  <<<<100,101,114,105,110,32,112,101,109,98,101,115,105>>, <<35,102,102,49,52,57,51>>>>,  \* line 157: derin pembesi -> #ff1493
  <<<<100,101,114,105,110,32,103,246,107,32,109,97,118,105,115,105>>, <<35,48,48,98,102,102,102>>>>,  \* line 158: derin g\xf6k mavisi -> #00bfff
  <<<<108,111,351,32,103,114,105,115,105>>, <<35,54,57,54,57,54,57>>>>,  \* line 159: lo\u015f grisi -> #696969
  <<<<109,97,118,105,115,105>>, <<35,49,101,57,48,102,102>>>>,  \* line 160: mavisi -> #1e90ff
  <<<<116,117,287,108,97,115,305>>, <<35,98,50,50,50,50,50>>>>,  \* line 161: tu\u011flas\u0131 -> #b22222
  <<<<231,105,231,101,287,105,32,98,101,121,97,122,305>>, <<35,102,102,102,97,102,48>>>>,  \* line 162: \xe7i\xe7e\u011fi beyaz\u0131 -> #fffaf0
  <<<<111,114,109,97,110,305,32,121,101,351,105,108,105>>, <<35,50,50,56,98,50,50>>>>,  \* line 163: orman\u0131 ye\u015fili -> #228b22
  <<<<102,117,351,121,97,115,305>>, <<35,102,102,48,48,102,102>>>>,  \* line 164: fu\u015fyas\u0131 -> #ff00ff
  <<<<103,97,114,105,112,32,103,114,105,115,105>>, <<35,100,99,100,99,100,99>>>>,  \* line 165: garip grisi -> #dcdcdc
  <<<<104,97,121,97,108,101,116,32,98,101,121,97,122,305>>, <<35,102,56,102,56,102,102>>>>,  \* line 166: hayalet beyaz\u0131 -> #f8f8ff
  <<<<97,108,116,305,110,305>>, <<35,102,102,100,55,48,48>>>>,  \* line 167: alt\u0131n\u0131 -> #ffd700
  <<<<97,108,116,305,110,305>>, <<35,100,97,97,53,50,48>>>>,  \* line 168: alt\u0131n\u0131 -> #daa520
  <<<<103,114,105,115,105>>, <<35,56,48,56,48,56,48>>>>,  \* line 169: grisi -> #808080
  <<<<121,101,351,105,108,105>>, <<35,48,48,56,48,48,48>>>>,  \* line 170: ye\u015fili -> #008000
  <<<<121,101,351,105,109,115,97,114,305,115,305>>, <<35,97,100,102,102,50,102>>>>,  \* line 171: ye\u015fimsar\u0131s\u0131 -> #adff2f
  <<<<98,97,108,107,97,118,117,110,117>>, <<35,102,48,102,102,102,48>>>>,  \* line 172: balkavunu -> #f0fff0
  <<<<97,116,101,351,108,105,32,112,101,109,98,101,115,105>>, <<35,102,102,54,57,98,52>>>>,  \* line 173: ate\u015fli pembesi -> #ff69b4
  <<<<104,105,110,116,32,107,305,114,109,305,122,305,115,305>>, <<35,99,100,53,99,53,99>>>>,  \* line 174: hint k\u0131rm\u0131z\u0131s\u0131 -> #cd5c5c
  <<<<102,105,108,100,105,351,105,115,105>>, <<35,102,102,102,102,102,48>>>>,  \* line 175: fildi\u015fisi -> #fffff0
  <<<<102,111,107,32,107,97,104,118,101,115,105>>, <<35,51,50,49,52,49,52>>>>,  \* line 176: fok kahvesi -> #321414
  <<<<104,97,107,105,115,105>>, <<35,102,48,101,54,56,99>>>>,  \* line 177: hakisi -> #f0e68c
  <<<<108,97,118,97,110,116,97,115,305>>, <<35,101,54,101,54,102,97>>>>,  \* line 178: lavantas\u0131 -> #e6e6fa
  <<<<108,97,118,97,110,116,97,115,305>>, <<35,102,102,102,48,102,53>>>>,  \* line 179: lavantas\u0131 -> #fff0f5
  <<<<115,97,102,105,114,105>>, <<35,48,56,50,53,54,55>>>>,  \* line 180: safiri -> #082567
  <<<<111,116,117,32,121,101,351,105,108,105>>, <<35,55,99,102,99,48,48>>>>,  \* line 181: otu ye\u015fili -> #7cfc00
  <<<<108,105,109,111,110,117>>, <<35,102,102,102,97,99,100>>>>,  \* line 182: limonu -> #fffacd
  <<<<109,97,118,105,115,105>>, <<35,97,100,100,56,101,54>>>>,  \* line 183: mavisi -> #add8e6
  <<<<97,231,305,107,32,109,101,114,99,97,110,305>>, <<35,102,48,56,48,56,48>>>>,  \* line 184: a\xe7\u0131k mercan\u0131 -> #f08080
  <<<<115,105,121,97,110,305>>, <<35,101,48,102,102,102,102>>>>,  \* line 185: siyan\u0131 -> #e0ffff
  <<<<97,108,116,305,110,305>>, <<35,102,97,102,97,100,50>>>>,  \* line 186: alt\u0131n\u0131 -> #fafad2
  <<<<103,114,105,115,105>>, <<35,100,51,100,51,100,51>>>>,  \* line 187: grisi -> #d3d3d3
  <<<<97,231,305,107,32,121,101,351,105,108,105>>, <<35,57,48,101,101,57,48>>>>,  \* line 189: a\xe7\u0131k ye\u015fili -> #90ee90
  <<<<97,231,305,107,32,112,101,109,98,101,115,105>>, <<35,102,102,98,54,99,49>>>>,  \* line 190: a\xe7\u0131k pembesi -> #ffb6c1
  <<<<97,231,305,107,32,115,111,109,111,110,117>>, <<35,102,102,97,48,55,97>>>>,  \* line 191: a\xe7\u0131k somonu -> #ffa07a
  <<<<97,231,305,107,32,100,101,110,105,122,32,121,101,351,105,108,105>>, <<35,50,48,98,50,97,97>>>>,  \* line 192: a\xe7\u0131k deniz ye\u015fili -> #20b2aa
  <<<<97,231,305,107,32,103,246,107,32,109,97,118,105,115,105>>, <<35,56,55,99,101,102,97>>>>,  \* line 193: a\xe7\u0131k g\xf6k mavisi -> #87cefa
  <<<<97,231,305,107,32,97,114,100,117,118,97,122,105,32,103,114,105,115,105>>, <<35,55,55,56,56,57,57>>>>,  \* line 194: a\xe7\u0131k arduvazi grisi -> #778899
  <<<<97,231,305,107,32,231,101,108,105,107,32,109,97,118,105,115,105>>, <<35,98,48,99,52,100,101>>>>,  \* line 195: a\xe7\u0131k \xe7elik mavisi -> #b0c4de
  <<<<97,231,305,107,32,115,97,114,305,115,305>>, <<35,102,102,102,102,101,48>>>>,  \* line 196: a\xe7\u0131k sar\u0131s\u0131 -> #ffffe0
  <<<<109,105,115,107,101,116,32,108,105,109,111,110,117>>, <<35,48,48,102,102,48,48>>>>,  \* line 197: misket limonu -> #00ff00
  <<<<121,101,351,105,108,32,108,105,109,111,110,117>>, <<35,51,50,99,100,51,50>>>>,  \* line 198: ye\u015fil limonu -> #32cd32
  <<<<105,112,101,287,105>>, <<35,102,97,102,48,101,54>>>>,  \* line 199: ipe\u011fi -> #faf0e6
  <<<<109,97,103,101,110,116,97,115,305>>, <<35,102,102,48,48,102,102>>>>,  \* line 200: magentas\u0131 -> #ff00ff
  <<<<109,97,114,111,110,117>>, <<35,56,48,48,48,48,48>>>>,  \* line 201: maronu -> #800000
  <<<<103,101,99,101,32,109,97,118,105,115,105>>, <<35,49,57,49,57,55,48>>>>,  \* line 202: gece mavisi -> #191970
  <<<<110,97,110,101,115,105>>, <<35,102,53,102,102,102,97>>>>,  \* line 203: nanesi -> #f5fffa
  <<<<98,117,122,108,117,32,103,252,108,252>>, <<35,102,102,101,52,101,49>>>>,  \* line 204: buzlu g\xfcl\xfc -> #ffe4e1
  <<<<109,111,107,97,115,101,110,105>>, <<35,102,102,101,52,98,53>>>>,  \* line 205: mokaseni -> #ffe4b5
  <<<<110,97,118,97,106,111,115,117>>, <<35,102,102,100,101,97,100>>>>,  \* line 206: navajosu -> #ffdead
  <<<<110,97,118,105,115,105>>, <<35,48,48,48,48,56,48>>>>,  \* line 207: navisi -> #000080
  <<<<101,115,107,105,32,105,112,108,105,287,105>>, <<35,102,100,102,53,101,54>>>>,  \* line 208: eski ipli\u011fi -> #fdf5e6
  <<<<107,117,351,107,111,110,109,97,122,305>>, <<35,52,54,53,57,52,53>>>>,  \* line 209: ku\u015fkonmaz\u0131 -> #465945
  <<<<122,101,121,116,105,110,105>>, <<35,56,48,56,48,48,48>>>>,  \* line 210: zeytini -> #808000
  <<<<107,97,98,97,287,305>>, <<35,102,102,55,53,49,56>>>>,  \* line 211: kaba\u011f\u0131 -> #ff7518
  <<<<104,97,118,117,99,117>>, <<35,101,100,57,49,50,49>>>>,  \* line 212: havucu -> #ed9121
  <<<<107,101,104,114,105,98,97,114,305>>, <<35,102,102,98,102,48,48>>>>,  \* line 213: kehribar\u0131 -> #ffbf00
  <<<<107,111,98,97,108,116,305>>, <<35,48,48,52,55,97,98>>>>,  \* line 214: kobalt\u0131 -> #0047ab
  <<<<107,246,115,101,108,101,115,105>>, <<35,102,48,100,99,56,50>>>>,  \* line 215: k\xf6selesi -> #f0dc82
  <<<<107,114,101,109,114,101,110,103,105>>, <<35,102,102,102,100,100,48>>>>,  \* line 216: kremrengi -> #fffdd0
  <<<<231,105,118,105,116,105>>, <<35,52,98,48,48,56,50>>>>,  \* line 217: \xe7iviti -> #4b0082
  <<<<109,97,108,97,107,105,116,105>>, <<35,48,98,100,97,53,49>>>>,  \* line 218: malakiti -> #0bda51
  <<<<122,101,121,116,105,110,121,97,287,305>>, <<35,54,98,56,101,50,51>>>>,  \* line 219: zeytinya\u011f\u0131 -> #6b8e23
  <<<<116,117,114,117,110,99,117,115,117>>, <<35,102,102,97,53,48,48>>>>,  \* line 220: turuncusu -> #ffa500
  <<<<97,116,101,351,105>>, <<35,102,102,52,100,48,48>>>>,  \* line 221: ate\u015fi -> #ff4d00
  <<<<121,97,118,114,117,97,287,122,305>>, <<35,102,102,55,102,48,48>>>>,  \* line 222: yavrua\u011fz\u0131 -> #ff7f00
  <<<<111,114,107,105,100,101,115,105>>, <<35,100,97,55,48,100,54>>>>,  \* line 223: orkidesi -> #da70d6
  <<<<112,97,112,97,121,97,115,305>>, <<35,102,102,101,102,100,53>>>>,  \* line 224: papayas\u0131 -> #ffefd5
  <<<<351,101,102,116,97,108,105,115,105>>, <<35,102,102,100,97,98,57>>>>,  \* line 225: \u015feftalisi -> #ffdab9
  <<<<112,101,114,117,115,117>>, <<35,99,100,56,53,51,102>>>>,  \* line 226: perusu -> #cd853f
  <<<<112,101,109,98,101,115,105>>, <<35,102,102,99,48,99,98>>>>,  \* line 227: pembesi -> #ffc0cb
  <<<<101,114,105,287,105>>, <<35,100,100,97,48,100,100>>>>,  \* line 228: eri\u011fi -> #dda0dd
  <<<<116,111,122,109,97,118,105,115,105>>, <<35,98,48,101,48,101,54>>>>,  \* line 229: tozmavisi -> #b0e0e6
  <<<<109,111,114,117>>, <<35,56,48,48,48,56,48>>>>,  \* line 230: moru -> #800080
  <<<<107,305,114,109,305,122,305,115,305>>, <<35,102,102,48,48,48,48>>>>,  \* line 231: k\u0131rm\u0131z\u0131s\u0131 -> #ff0000
  <<<<107,305,122,305,108,107,97,104,118,101,115,105>>, <<35,98,99,56,102,56,102>>>>,  \* line 232: k\u0131z\u0131lkahvesi -> #bc8f8f
  <<<<97,115,105,108,32,109,97,118,105,115,105>>, <<35,52,49,54,57,101,49>>>>,  \* line 233: asil mavisi -> #4169e1
  <<<<101,287,101,114,32,107,97,104,118,101,115,105>>, <<35,56,98,52,53,49,51>>>>,  \* line 234: e\u011fer kahvesi -> #8b4513
  <<<<115,111,109,111,110,117>>, <<35,102,97,56,48,55,50>>>>,  \* line 235: somonu -> #fa8072
  <<<<107,117,109,117,108,117>>, <<35,102,52,97,52,54,48>>>>,  \* line 236: kumulu -> #f4a460
  <<<<100,101,110,105,122,32,121,101,351,105,108,105>>, <<35,50,101,56,98,53,55>>>>,  \* line 237: deniz ye\u015fili -> #2e8b57
  <<<<100,101,110,105,122,107,97,98,117,287,117>>, <<35,102,102,102,53,101,101>>>>,  \* line 238: denizkabu\u011fu -> #fff5ee
  <<<<116,111,112,114,97,287,305>>, <<35,97,48,53,50,50,100>>>>,  \* line 239: topra\u011f\u0131 -> #a0522d
  <<<<103,252,109,252,351,252>>, <<35,99,48,99,48,99,48>>>>,  \* line 240: g\xfcm\xfc\u015f\xfc -> #c0c0c0
  <<<<103,246,107,32,109,97,118,105,115,105>>, <<35,56,55,99,101,101,98>>>>,  \* line 241: g\xf6k mavisi -> #87ceeb
  <<<<107,97,121,114,97,107,32,109,97,118,105,115,105>>, <<35,54,97,53,97,99,100>>>>,  \* line 242: kayrak mavisi -> #6a5acd
  <<<<107,97,121,114,97,107,32,103,114,105,115,105>>, <<35,55,48,56,48,57,48>>>>,  \* line 243: kayrak grisi -> #708090
  <<<<107,97,114,98,101,121,97,122,305>>, <<35,102,102,102,97,102,97>>>>,  \* line 244: karbeyaz\u0131 -> #fffafa
  <<<<98,97,104,97,114,32,121,101,351,105,108,105>>, <<35,48,48,102,102,55,102>>>>,  \* line 245: bahar ye\u015fili -> #00ff7f
  <<<<231,101,108,105,107,32,109,97,118,105,115,105>>, <<35,52,54,56,50,98,52>>>>,  \* line 246: \xe7elik mavisi -> #4682b4
  <<<<98,114,111,110,122,117>>, <<35,100,50,98,52,56,99>>>>,  \* line 247: bronzu -> #d2b48c
  <<<<116,101,97,108>>, <<35,48,48,56,48,56,48>>>>,  \* line 248: teal -> #008080
  <<<<116,104,105,115,116,108,101>>, <<35,100,56,98,102,100,56>>>>,  \* line 249: thistle -> #d8bfd8
  <<<<100,111,109,97,116,101,115,105>>, <<35,102,102,54,51,52,55>>>>,  \* line 250: domatesi -> #ff6347
  <<<<116,117,114,107,117,97,122,305>>, <<35,52,48,101,48,100,48>>>>,  \* line 251: turkuaz\u0131 -> #40e0d0
  <<<<101,102,108,97,116,117,110,117>>, <<35,101,101,56,50,101,101>>>>,  \* line 252: eflatunu -> #ee82ee
  <<<<98,117,287,100,97,121,305>>, <<35,102,53,100,101,98,51>>>>,  \* line 253: bu\u011fday\u0131 -> #f5deb3
  <<<<98,101,121,97,122,305>>, <<35,102,102,102,102,102,102>>>>,  \* line 254: beyaz\u0131 -> #ffffff
  <<<<100,117,109,97,110,98,101,121,97,122,305>>, <<35,102,53,102,53,102,53>>>>,  \* line 255: dumanbeyaz\u0131 -> #f5f5f5
  <<<<115,97,114,305,115,305>>, <<35,102,102,102,102,48,48>>>>,  \* line 256: sar\u0131s\u0131 -> #ffff00
  <<<<115,97,114,305,109,116,305,114,97,107,121,101,351,105,108,105>>, <<35,57,97,99,100,51,50>>>>,  \* line 257: sar\u0131mt\u0131rakye\u015fili -> #9acd32
  <<<<97,108,105,122,97,114,305>>, <<35,101,51,50,54,51,54>>>>,  \* line 258: alizar\u0131 -> #e32636
  <<<<97,114,115,101,110,105,287,105>>, <<35,51,98,52,52,52,98>>>>,  \* line 259: arseni\u011fi -> #3b444b
  <<<<99,101,108,97,100,111,110,117>>, <<35,97,99,101,108,97,102>>>>,  \* line 260: celadonu -> #acelaf
  <<<<98,117,114,103,111,110,121,97,115,305>>, <<35,57,48,48,48,50,48>>>>,  \* line 261: burgonyas\u0131 -> #900020
  <<<<98,111,114,100,111,115,117>>, <<35,56,48,48,48,48,48>>>>,  \* line 262: bordosu -> #800000
  <<<<100,101,118,101,100,105,107,101,110,105>>, <<35,100,56,98,102,100,56>>>>   \* line 263: devedikeni -> #d8bfd8
  >>

CSS3_NAMES_TO_HEX == DictLiteral(CSS3_LITERAL)

\* the assignments CSS3_HEX_TO_NAMES[hex] = name made after the reversal
CSS3_OVERRIDES ==
  <<
  <<<<35,97,57,97,57,97,57>>, <<100,97,114,107,103,114,97,121>>>>,  \* line 291: #a9a9a9 -> darkgray
  <<<<35,50,102,52,102,52,102>>, <<100,97,114,107,115,108,97,116,101,103,114,97,121>>>>,  \* line 292: #2f4f4f -> darkslategray
  <<<<35,54,57,54,57,54,57>>, <<100,105,109,103,114,97,121>>>>,  \* line 293: #696969 -> dimgray
  <<<<35,56,48,56,48,56,48>>, <<103,114,97,121>>>>,  \* line 294: #808080 -> gray
  <<<<35,100,51,100,51,100,51>>, <<108,105,103,104,116,103,114,97,121>>>>,  \* line 295: #d3d3d3 -> lightgray
  <<<<35,55,55,56,56,57,57>>, <<108,105,103,104,116,115,108,97,116,101,103,114,97,121>>>>,  \* line 296: #778899 -> lightslategray
  <<<<35,55,48,56,48,57,48>>, <<115,108,97,116,101,103,114,97,121>>>>   \* line 297: #708090 -> slategray
  >>

\* the module-level statements that build the hex -> name tables (lines
\* 270-297), the dicts being walked in the given order
ApplyOverrides(d, overrides) == DictUpdate(d, overrides, 1)

ImportHexToNames(order) ==
  LET html4 == _reversedict(HTML4_NAMES_TO_HEX, order)
  IN [s \in SUPPORTED_SPECIFICATIONS |->
        CASE s = HTML4 -> html4
          [] s = CSS2 -> html4
          [] s = CSS21 -> _reversedict(CSS21_NAMES_TO_HEX, order)
          [] s = CSS3 ->
               ApplyOverrides(_reversedict(CSS3_NAMES_TO_HEX, order), CSS3_OVERRIDES)]

\* the hex -> name tables the import leaves, for each order of iteration
HEX_TO_NAMES == [o \in IterationOrders |-> ImportHexToNames(o)]

NAMES_TO_HEX ==
  [s \in SUPPORTED_SPECIFICATIONS |->
     CASE s = HTML4 -> HTML4_NAMES_TO_HEX
       [] s = CSS2 -> CSS2_NAMES_TO_HEX
       [] s = CSS21 -> CSS21_NAMES_TO_HEX
       [] s = CSS3 -> CSS3_NAMES_TO_HEX]

----------------------------------------------------------------------------
(* Text primitives of Python used by the module                            *)

\* string.hexdigits, also the class [a-fA-F0-9] of HEX_COLOR_RE
hexdigits == (48..57) \cup (97..102) \cup (65..70)

\* the code points str.strip() removes
Whitespace ==
  (9..13) \cup (28..32) \cup {133, 160, 5760} \cup (8192..8202)
    \cup {8232, 8233, 8239, 8287, 12288}

\* str.lower(): the code points with a one-code-point lower case, as runs
\* <<first, last, step, offset>> (Unicode 14.0, the tables of Python 3.11)
LowerRuns ==
  <<<<65, 90, 1, 32>>, <<192, 214, 1, 32>>, <<216, 222, 1, 32>>, <<256, 302, 2, 1>>,
    <<306, 310, 2, 1>>, <<313, 327, 2, 1>>, <<330, 374, 2, 1>>, <<376, 376, 1, -121>>,
    <<377, 381, 2, 1>>, <<385, 385, 1, 210>>, <<386, 388, 2, 1>>, <<390, 390, 1, 206>>,
    <<391, 391, 1, 1>>, <<393, 394, 1, 205>>, <<395, 395, 1, 1>>, <<398, 398, 1, 79>>,
    <<399, 399, 1, 202>>, <<400, 400, 1, 203>>, <<401, 401, 1, 1>>, <<403, 403, 1, 205>>,
    <<404, 404, 1, 207>>, <<406, 406, 1, 211>>, <<407, 407, 1, 209>>, <<408, 408, 1, 1>>,
    <<412, 412, 1, 211>>, <<413, 413, 1, 213>>, <<415, 415, 1, 214>>, <<416, 420, 2, 1>>,
    <<422, 422, 1, 218>>, <<423, 423, 1, 1>>, <<425, 425, 1, 218>>, <<428, 428, 1, 1>>,
    <<430, 430, 1, 218>>, <<431, 431, 1, 1>>, <<433, 434, 1, 217>>, <<435, 437, 2, 1>>,
    <<439, 439, 1, 219>>, <<440, 440, 1, 1>>, <<444, 444, 1, 1>>, <<452, 452, 1, 2>>,
    <<453, 453, 1, 1>>, <<455, 455, 1, 2>>, <<456, 456, 1, 1>>, <<458, 458, 1, 2>>,
    <<459, 475, 2, 1>>, <<478, 494, 2, 1>>, <<497, 497, 1, 2>>, <<498, 500, 2, 1>>,
    <<502, 502, 1, -97>>, <<503, 503, 1, -56>>, <<504, 542, 2, 1>>, <<544, 544, 1, -130>>,
    <<546, 562, 2, 1>>, <<570, 570, 1, 10795>>, <<571, 571, 1, 1>>, <<573, 573, 1, -163>>,
    <<574, 574, 1, 10792>>, <<577, 577, 1, 1>>, <<579, 579, 1, -195>>, <<580, 580, 1, 69>>,
    <<581, 581, 1, 71>>, <<582, 590, 2, 1>>, <<880, 882, 2, 1>>, <<886, 886, 1, 1>>,
    <<895, 895, 1, 116>>, <<902, 902, 1, 38>>, <<904, 906, 1, 37>>, <<908, 908, 1, 64>>,
    <<910, 911, 1, 63>>, <<913, 929, 1, 32>>, <<931, 939, 1, 32>>, <<975, 975, 1, 8>>,
    <<984, 1006, 2, 1>>, <<1012, 1012, 1, -60>>, <<1015, 1015, 1, 1>>, <<1017, 1017, 1, -7>>,
    <<1018, 1018, 1, 1>>, <<1021, 1023, 1, -130>>, <<1024, 1039, 1, 80>>, <<1040, 1071, 1, 32>>,
    <<1120, 1152, 2, 1>>, <<1162, 1214, 2, 1>>, <<1216, 1216, 1, 15>>, <<1217, 1229, 2, 1>>,
    <<1232, 1326, 2, 1>>, <<1329, 1366, 1, 48>>, <<4256, 4293, 1, 7264>>, <<4295, 4295, 1, 7264>>,
    <<4301, 4301, 1, 7264>>, <<5024, 5103, 1, 38864>>, <<5104, 5109, 1, 8>>, <<7312, 7354, 1, -3008>>,
    <<7357, 7359, 1, -3008>>, <<7680, 7828, 2, 1>>, <<7838, 7838, 1, -7615>>, <<7840, 7934, 2, 1>>,
    <<7944, 7951, 1, -8>>, <<7960, 7965, 1, -8>>, <<7976, 7983, 1, -8>>, <<7992, 7999, 1, -8>>,
    <<8008, 8013, 1, -8>>, <<8025, 8031, 2, -8>>, <<8040, 8047, 1, -8>>, <<8072, 8079, 1, -8>>,
    <<8088, 8095, 1, -8>>, <<8104, 8111, 1, -8>>, <<8120, 8121, 1, -8>>, <<8122, 8123, 1, -74>>,
    <<8124, 8124, 1, -9>>, <<8136, 8139, 1, -86>>, <<8140, 8140, 1, -9>>, <<8152, 8153, 1, -8>>,
    <<8154, 8155, 1, -100>>, <<8168, 8169, 1, -8>>, <<8170, 8171, 1, -112>>, <<8172, 8172, 1, -7>>,
    <<8184, 8185, 1, -128>>, <<8186, 8187, 1, -126>>, <<8188, 8188, 1, -9>>, <<8486, 8486, 1, -7517>>,
    <<8490, 8490, 1, -8383>>, <<8491, 8491, 1, -8262>>, <<8498, 8498, 1, 28>>, <<8544, 8559, 1, 16>>,
    <<8579, 8579, 1, 1>>, <<9398, 9423, 1, 26>>, <<11264, 11311, 1, 48>>, <<11360, 11360, 1, 1>>,
    <<11362, 11362, 1, -10743>>, <<11363, 11363, 1, -3814>>, <<11364, 11364, 1, -10727>>, <<11367, 11371, 2, 1>>,
    <<11373, 11373, 1, -10780>>, <<11374, 11374, 1, -10749>>, <<11375, 11375, 1, -10783>>, <<11376, 11376, 1, -10782>>,
    <<11378, 11378, 1, 1>>, <<11381, 11381, 1, 1>>, <<11390, 11391, 1, -10815>>, <<11392, 11490, 2, 1>>,
    <<11499, 11501, 2, 1>>, <<11506, 11506, 1, 1>>, <<42560, 42604, 2, 1>>, <<42624, 42650, 2, 1>>,
    <<42786, 42798, 2, 1>>, <<42802, 42862, 2, 1>>, <<42873, 42875, 2, 1>>, <<42877, 42877, 1, -35332>>,
    <<42878, 42886, 2, 1>>, <<42891, 42891, 1, 1>>, <<42893, 42893, 1, -42280>>, <<42896, 42898, 2, 1>>,
    <<42902, 42920, 2, 1>>, <<42922, 42922, 1, -42308>>, <<42923, 42923, 1, -42319>>, <<42924, 42924, 1, -42315>>,
    <<42925, 42925, 1, -42305>>, <<42926, 42926, 1, -42308>>, <<42928, 42928, 1, -42258>>, <<42929, 42929, 1, -42282>>,
    <<42930, 42930, 1, -42261>>, <<42931, 42931, 1, 928>>, <<42932, 42946, 2, 1>>, <<42948, 42948, 1, -48>>,
    <<42949, 42949, 1, -42307>>, <<42950, 42950, 1, -35384>>, <<42951, 42953, 2, 1>>, <<42960, 42960, 1, 1>>,
    <<42966, 42968, 2, 1>>, <<42997, 42997, 1, 1>>, <<65313, 65338, 1, 32>>, <<66560, 66599, 1, 40>>,
    <<66736, 66771, 1, 40>>, <<66928, 66964, 2, 39>>, <<66929, 66938, 1, 39>>, <<66941, 66954, 1, 39>>,
    <<66957, 66962, 1, 39>>, <<66965, 66965, 1, 39>>, <<68736, 68786, 1, 64>>, <<71840, 71871, 1, 32>>,
    <<93760, 93791, 1, 32>>, <<125184, 125217, 1, 34>>>>

\* the cased code points that are not case-ignorable, as <<first, last>>
CasedRanges ==
  <<<<65, 90>>, <<97, 122>>, <<170, 170>>, <<181, 181>>, <<186, 186>>,
    <<192, 214>>, <<216, 246>>, <<248, 442>>, <<444, 447>>, <<452, 659>>,
    <<661, 687>>, <<880, 883>>, <<886, 887>>, <<891, 893>>, <<895, 895>>,
    <<902, 902>>, <<904, 906>>, <<908, 908>>, <<910, 929>>, <<931, 1013>>,
    <<1015, 1153>>, <<1162, 1327>>, <<1329, 1366>>, <<1376, 1416>>, <<4256, 4293>>,
    <<4295, 4295>>, <<4301, 4301>>, <<4304, 4346>>, <<4349, 4351>>, <<5024, 5109>>,
    <<5112, 5117>>, <<7296, 7304>>, <<7312, 7354>>, <<7357, 7359>>, <<7424, 7467>>,
    <<7531, 7543>>, <<7545, 7578>>, <<7680, 7957>>, <<7960, 7965>>, <<7968, 8005>>,
    <<8008, 8013>>, <<8016, 8023>>, <<8025, 8025>>, <<8027, 8027>>, <<8029, 8029>>,
    <<8031, 8061>>, <<8064, 8116>>, <<8118, 8124>>, <<8126, 8126>>, <<8130, 8132>>,
    <<8134, 8140>>, <<8144, 8147>>, <<8150, 8155>>, <<8160, 8172>>, <<8178, 8180>>,
    <<8182, 8188>>, <<8450, 8450>>, <<8455, 8455>>, <<8458, 8467>>, <<8469, 8469>>,
    <<8473, 8477>>, <<8484, 8484>>, <<8486, 8486>>, <<8488, 8488>>, <<8490, 8493>>,
    <<8495, 8500>>, <<8505, 8505>>, <<8508, 8511>>, <<8517, 8521>>, <<8526, 8526>>,
    <<8544, 8575>>, <<8579, 8580>>, <<9398, 9449>>, <<11264, 11387>>, <<11390, 11492>>,
    <<11499, 11502>>, <<11506, 11507>>, <<11520, 11557>>, <<11559, 11559>>, <<11565, 11565>>,
    <<42560, 42605>>, <<42624, 42651>>, <<42786, 42863>>, <<42865, 42887>>, <<42891, 42894>>,
    <<42896, 42954>>, <<42960, 42961>>, <<42963, 42963>>, <<42965, 42969>>, <<42997, 42998>>,
    <<43002, 43002>>, <<43824, 43866>>, <<43872, 43880>>, <<43888, 43967>>, <<64256, 64262>>,
    <<64275, 64279>>, <<65313, 65338>>, <<65345, 65370>>, <<66560, 66639>>, <<66736, 66771>>,
    <<66776, 66811>>, <<66928, 66938>>, <<66940, 66954>>, <<66956, 66962>>, <<66964, 66965>>,
    <<66967, 66977>>, <<66979, 66993>>, <<66995, 67001>>, <<67003, 67004>>, <<68736, 68786>>,
    <<68800, 68850>>, <<71840, 71903>>, <<93760, 93823>>, <<119808, 119892>>, <<119894, 119964>>,
    <<119966, 119967>>, <<119970, 119970>>, <<119973, 119974>>, <<119977, 119980>>, <<119982, 119993>>,
    <<119995, 119995>>, <<119997, 120003>>, <<120005, 120069>>, <<120071, 120074>>, <<120077, 120084>>,
    <<120086, 120092>>, <<120094, 120121>>, <<120123, 120126>>, <<120128, 120132>>, <<120134, 120134>>,
    <<120138, 120144>>, <<120146, 120485>>, <<120488, 120512>>, <<120514, 120538>>, <<120540, 120570>>,
    <<120572, 120596>>, <<120598, 120628>>, <<120630, 120654>>, <<120656, 120686>>, <<120688, 120712>>,
    <<120714, 120744>>, <<120746, 120770>>, <<120772, 120779>>, <<122624, 122633>>, <<122635, 122654>>,
    <<125184, 125251>>, <<127280, 127305>>, <<127312, 127337>>, <<127344, 127369>>>>

\* the case-ignorable code points, as <<first, last>>
CaseIgnorableRanges ==
  <<<<39, 39>>, <<46, 46>>, <<58, 58>>, <<94, 94>>, <<96, 96>>,
    <<168, 168>>, <<173, 173>>, <<175, 175>>, <<180, 180>>, <<183, 184>>,
    <<688, 879>>, <<884, 885>>, <<890, 890>>, <<900, 901>>, <<903, 903>>,
    <<1155, 1161>>, <<1369, 1369>>, <<1375, 1375>>, <<1425, 1469>>, <<1471, 1471>>,
    <<1473, 1474>>, <<1476, 1477>>, <<1479, 1479>>, <<1524, 1524>>, <<1536, 1541>>,
    <<1552, 1562>>, <<1564, 1564>>, <<1600, 1600>>, <<1611, 1631>>, <<1648, 1648>>,
    <<1750, 1757>>, <<1759, 1768>>, <<1770, 1773>>, <<1807, 1807>>, <<1809, 1809>>,
    <<1840, 1866>>, <<1958, 1968>>, <<2027, 2037>>, <<2042, 2042>>, <<2045, 2045>>,
    <<2070, 2093>>, <<2137, 2139>>, <<2184, 2184>>, <<2192, 2193>>, <<2200, 2207>>,
    <<2249, 2306>>, <<2362, 2362>>, <<2364, 2364>>, <<2369, 2376>>, <<2381, 2381>>,
    <<2385, 2391>>, <<2402, 2403>>, <<2417, 2417>>, <<2433, 2433>>, <<2492, 2492>>,
    <<2497, 2500>>, <<2509, 2509>>, <<2530, 2531>>, <<2558, 2558>>, <<2561, 2562>>,
    <<2620, 2620>>, <<2625, 2626>>, <<2631, 2632>>, <<2635, 2637>>, <<2641, 2641>>,
    <<2672, 2673>>, <<2677, 2677>>, <<2689, 2690>>, <<2748, 2748>>, <<2753, 2757>>,
    <<2759, 2760>>, <<2765, 2765>>, <<2786, 2787>>, <<2810, 2815>>, <<2817, 2817>>,
    <<2876, 2876>>, <<2879, 2879>>, <<2881, 2884>>, <<2893, 2893>>, <<2901, 2902>>,
    <<2914, 2915>>, <<2946, 2946>>, <<3008, 3008>>, <<3021, 3021>>, <<3072, 3072>>,
    <<3076, 3076>>, <<3132, 3132>>, <<3134, 3136>>, <<3142, 3144>>, <<3146, 3149>>,
    <<3157, 3158>>, <<3170, 3171>>, <<3201, 3201>>, <<3260, 3260>>, <<3263, 3263>>,
    <<3270, 3270>>, <<3276, 3277>>, <<3298, 3299>>, <<3328, 3329>>, <<3387, 3388>>,
    <<3393, 3396>>, <<3405, 3405>>, <<3426, 3427>>, <<3457, 3457>>, <<3530, 3530>>,
    <<3538, 3540>>, <<3542, 3542>>, <<3633, 3633>>, <<3636, 3642>>, <<3654, 3662>>,
    <<3761, 3761>>, <<3764, 3772>>, <<3782, 3782>>, <<3784, 3789>>, <<3864, 3865>>,
    <<3893, 3893>>, <<3895, 3895>>, <<3897, 3897>>, <<3953, 3966>>, <<3968, 3972>>,
    <<3974, 3975>>, <<3981, 3991>>, <<3993, 4028>>, <<4038, 4038>>, <<4141, 4144>>,
    <<4146, 4151>>, <<4153, 4154>>, <<4157, 4158>>, <<4184, 4185>>, <<4190, 4192>>,
    <<4209, 4212>>, <<4226, 4226>>, <<4229, 4230>>, <<4237, 4237>>, <<4253, 4253>>,
    <<4348, 4348>>, <<4957, 4959>>, <<5906, 5908>>, <<5938, 5939>>, <<5970, 5971>>,
    <<6002, 6003>>, <<6068, 6069>>, <<6071, 6077>>, <<6086, 6086>>, <<6089, 6099>>,
    <<6103, 6103>>, <<6109, 6109>>, <<6155, 6159>>, <<6211, 6211>>, <<6277, 6278>>,
    <<6313, 6313>>, <<6432, 6434>>, <<6439, 6440>>, <<6450, 6450>>, <<6457, 6459>>,
    <<6679, 6680>>, <<6683, 6683>>, <<6742, 6742>>, <<6744, 6750>>, <<6752, 6752>>,
    <<6754, 6754>>, <<6757, 6764>>, <<6771, 6780>>, <<6783, 6783>>, <<6823, 6823>>,
    <<6832, 6862>>, <<6912, 6915>>, <<6964, 6964>>, <<6966, 6970>>, <<6972, 6972>>,
    <<6978, 6978>>, <<7019, 7027>>, <<7040, 7041>>, <<7074, 7077>>, <<7080, 7081>>,
    <<7083, 7085>>, <<7142, 7142>>, <<7144, 7145>>, <<7149, 7149>>, <<7151, 7153>>,
    <<7212, 7219>>, <<7222, 7223>>, <<7288, 7293>>, <<7376, 7378>>, <<7380, 7392>>,
    <<7394, 7400>>, <<7405, 7405>>, <<7412, 7412>>, <<7416, 7417>>, <<7468, 7530>>,
    <<7544, 7544>>, <<7579, 7679>>, <<8125, 8125>>, <<8127, 8129>>, <<8141, 8143>>,
    <<8157, 8159>>, <<8173, 8175>>, <<8189, 8190>>, <<8203, 8207>>, <<8216, 8217>>,
    <<8228, 8228>>, <<8231, 8231>>, <<8234, 8238>>, <<8288, 8292>>, <<8294, 8303>>,
    <<8305, 8305>>, <<8319, 8319>>, <<8336, 8348>>, <<8400, 8432>>, <<11388, 11389>>,
    <<11503, 11505>>, <<11631, 11631>>, <<11647, 11647>>, <<11744, 11775>>, <<11823, 11823>>,
    <<12293, 12293>>, <<12330, 12333>>, <<12337, 12341>>, <<12347, 12347>>, <<12441, 12446>>,
    <<12540, 12542>>, <<40981, 40981>>, <<42232, 42237>>, <<42508, 42508>>, <<42607, 42610>>,
    <<42612, 42621>>, <<42623, 42623>>, <<42652, 42655>>, <<42736, 42737>>, <<42752, 42785>>,
    <<42864, 42864>>, <<42888, 42890>>, <<42994, 42996>>, <<43000, 43001>>, <<43010, 43010>>,
    <<43014, 43014>>, <<43019, 43019>>, <<43045, 43046>>, <<43052, 43052>>, <<43204, 43205>>,
    <<43232, 43249>>, <<43263, 43263>>, <<43302, 43309>>, <<43335, 43345>>, <<43392, 43394>>,
    <<43443, 43443>>, <<43446, 43449>>, <<43452, 43453>>, <<43471, 43471>>, <<43493, 43494>>,
    <<43561, 43566>>, <<43569, 43570>>, <<43573, 43574>>, <<43587, 43587>>, <<43596, 43596>>,
    <<43632, 43632>>, <<43644, 43644>>, <<43696, 43696>>, <<43698, 43700>>, <<43703, 43704>>,
    <<43710, 43711>>, <<43713, 43713>>, <<43741, 43741>>, <<43756, 43757>>, <<43763, 43764>>,
    <<43766, 43766>>, <<43867, 43871>>, <<43881, 43883>>, <<44005, 44005>>, <<44008, 44008>>,
    <<44013, 44013>>, <<64286, 64286>>, <<64434, 64450>>, <<65024, 65039>>, <<65043, 65043>>,
    <<65056, 65071>>, <<65106, 65106>>, <<65109, 65109>>, <<65279, 65279>>, <<65287, 65287>>,
    <<65294, 65294>>, <<65306, 65306>>, <<65342, 65342>>, <<65344, 65344>>, <<65392, 65392>>,
    <<65438, 65439>>, <<65507, 65507>>, <<65529, 65531>>, <<66045, 66045>>, <<66272, 66272>>,
    <<66422, 66426>>, <<67456, 67461>>, <<67463, 67504>>, <<67506, 67514>>, <<68097, 68099>>,
    <<68101, 68102>>, <<68108, 68111>>, <<68152, 68154>>, <<68159, 68159>>, <<68325, 68326>>,
    <<68900, 68903>>, <<69291, 69292>>, <<69446, 69456>>, <<69506, 69509>>, <<69633, 69633>>,
    <<69688, 69702>>, <<69744, 69744>>, <<69747, 69748>>, <<69759, 69761>>, <<69811, 69814>>,
    <<69817, 69818>>, <<69821, 69821>>, <<69826, 69826>>, <<69837, 69837>>, <<69888, 69890>>,
    <<69927, 69931>>, <<69933, 69940>>, <<70003, 70003>>, <<70016, 70017>>, <<70070, 70078>>,
    <<70089, 70092>>, <<70095, 70095>>, <<70191, 70193>>, <<70196, 70196>>, <<70198, 70199>>,
    <<70206, 70206>>, <<70367, 70367>>, <<70371, 70378>>, <<70400, 70401>>, <<70459, 70460>>,
    <<70464, 70464>>, <<70502, 70508>>, <<70512, 70516>>, <<70712, 70719>>, <<70722, 70724>>,
    <<70726, 70726>>, <<70750, 70750>>, <<70835, 70840>>, <<70842, 70842>>, <<70847, 70848>>,
    <<70850, 70851>>, <<71090, 71093>>, <<71100, 71101>>, <<71103, 71104>>, <<71132, 71133>>,
    <<71219, 71226>>, <<71229, 71229>>, <<71231, 71232>>, <<71339, 71339>>, <<71341, 71341>>,
    <<71344, 71349>>, <<71351, 71351>>, <<71453, 71455>>, <<71458, 71461>>, <<71463, 71467>>,
    <<71727, 71735>>, <<71737, 71738>>, <<71995, 71996>>, <<71998, 71998>>, <<72003, 72003>>,
    <<72148, 72151>>, <<72154, 72155>>, <<72160, 72160>>, <<72193, 72202>>, <<72243, 72248>>,
    <<72251, 72254>>, <<72263, 72263>>, <<72273, 72278>>, <<72281, 72283>>, <<72330, 72342>>,
    <<72344, 72345>>, <<72752, 72758>>, <<72760, 72765>>, <<72767, 72767>>, <<72850, 72871>>,
    <<72874, 72880>>, <<72882, 72883>>, <<72885, 72886>>, <<73009, 73014>>, <<73018, 73018>>,
    <<73020, 73021>>, <<73023, 73029>>, <<73031, 73031>>, <<73104, 73105>>, <<73109, 73109>>,
    <<73111, 73111>>, <<73459, 73460>>, <<78896, 78904>>, <<92912, 92916>>, <<92976, 92982>>,
    <<92992, 92995>>, <<94031, 94031>>, <<94095, 94111>>, <<94176, 94177>>, <<94179, 94180>>,
    <<110576, 110579>>, <<110581, 110587>>, <<110589, 110590>>, <<113821, 113822>>, <<113824, 113827>>,
    <<118528, 118573>>, <<118576, 118598>>, <<119143, 119145>>, <<119155, 119170>>, <<119173, 119179>>,
    <<119210, 119213>>, <<119362, 119364>>, <<121344, 121398>>, <<121403, 121452>>, <<121461, 121461>>,
    <<121476, 121476>>, <<121499, 121503>>, <<121505, 121519>>, <<122880, 122886>>, <<122888, 122904>>,
    <<122907, 122913>>, <<122915, 122916>>, <<122918, 122922>>, <<123184, 123197>>, <<123566, 123566>>,
    <<123628, 123631>>, <<125136, 125142>>, <<125252, 125259>>, <<127995, 127999>>, <<917505, 917505>>,
    <<917536, 917631>>, <<917760, 917999>>>>


\* the code point of digit zero of every Unicode decimal digit run (category Nd);
\* the nine that follow it are the digits one to nine
DecimalZeros ==
  <<48, 1632, 1776, 1984, 2406, 2534, 2662, 2790, 2918, 3046,
    3174, 3302, 3430, 3558, 3664, 3792, 3872, 4160, 4240, 6112,
    6160, 6470, 6608, 6784, 6800, 6992, 7088, 7232, 7248, 42528,
    43216, 43264, 43472, 43504, 43600, 44016, 65296, 66720, 68912, 69734,
    69872, 69942, 70096, 70384, 70736, 70864, 71248, 71360, 71472, 71904,
    72016, 72784, 73040, 73120, 92768, 92864, 93008, 120782, 120792, 120802,
    120812, 120822, 123200, 123632, 125264, 130032>>

\* str.lower() of one code point out of context; only U+0130 lowers to two
\* code points ('i' followed by U+0307)
LowerChar(c) ==
  IF c < 128 THEN (IF c \in 65..90 THEN <<c + 32>> ELSE <<c>>)
  ELSE IF c = 304 THEN <<105, 775>>
  ELSE LET runs == {r \in 1..Len(LowerRuns) :
                      /\ LowerRuns[r][1] <= c
                      /\ c <= LowerRuns[r][2]
                      /\ (c - LowerRuns[r][1]) % LowerRuns[r][3] = 0}
       IN IF runs = {} THEN <<c>>
          ELSE <<c + LowerRuns[CHOOSE r \in runs : TRUE][4]>>

InRanges(c, ranges) ==
  \E r \in 1..Len(ranges) : ranges[r][1] <= c /\ c <= ranges[r][2]

Cased(c) ==
  IF c < 128 THEN c \in (65..90) \cup (97..122) ELSE InRanges(c, CasedRanges)

CaseIgnorable(c) ==
  IF c < 128 THEN c \in {39, 46, 58, 94, 96}
  ELSE InRanges(c, CaseIgnorableRanges)

\* the final-sigma rule of str.lower(): a capital sigma at position i is final
\* when a cased letter precedes it and none follows it, case-ignorable code
\* points skipped on both sides
FinalSigma(s, i) ==
  LET before == {j \in 1..(i - 1) : ~CaseIgnorable(s[j])}
      after == {j \in (i + 1)..Len(s) : ~CaseIgnorable(s[j])}
  IN /\ before # {}
     /\ Cased(s[Max(before)])
     /\ after = {} \/ ~Cased(s[Min(after)])

\* str.lower() of the code point at position i of s
LowerAt(s, i) ==
  IF s[i] = 931 THEN (IF FinalSigma(s, i) THEN <<962>> ELSE <<963>>)
  ELSE LowerChar(s[i])

\* the concatenation of a sequence of texts
RECURSIVE Join(_, _, _)
Join(parts, lo, hi) ==
  IF lo > hi THEN <<>>
  ELSE IF lo = hi THEN parts[lo]
  ELSE LET mid == (lo + hi) \div 2
       IN Join(parts, lo, mid) \o Join(parts, mid + 1, hi)

lower(s) == Join([i \in 1..Len(s) |-> LowerAt(s, i)], 1, Len(s))

strip(s) ==
  LET kept == {i \in 1..Len(s) : s[i] \notin Whitespace}
  IN IF kept = {} THEN <<>> ELSE SubSeq(s, Min(kept), Max(kept))

startswith(s, c) == s # <<>> /\ s[1] = c

AllIn(s, chars) == \A i \in 1..Len(s) : s[i] \in chars

HexDigitValue(c) ==
  IF c \in 48..57 THEN c - 48
  ELSE IF c \in 97..102 THEN c - 87
  ELSE c - 55

\* int(s, 16) for a text of ASCII hex digits
RECURSIVE Int16From(_, _, _)
Int16From(s, i, acc) ==
  IF i > Len(s) THEN acc
  ELSE Int16From(s, i + 1, acc * 16 + HexDigitValue(s[i]))

Int16(s) == Int16From(s, 1, 0)

HexDigitChar(v) == IF v < 10 THEN 48 + v ELSE 87 + v

RECURSIVE HexText(_)
HexText(n) ==
  IF n < 16 THEN <<HexDigitChar(n)>>
  ELSE Append(HexText(n \div 16), HexDigitChar(n % 16))

\* '{:02x}'.format(n): lowercase hex, zero-padded to width 2, sign included
Format02x(n) ==
  IF n < 0 THEN <<45>> \o HexText(0 - n)
  ELSE IF n < 16 THEN <<48>> \o HexText(n)
  ELSE HexText(n)

----------------------------------------------------------------------------
(* Normalization functions                                                 *)

\* HEX_COLOR_RE.match(s).group(1), or Missing when there is no match.  '$'
\* matches at the end of the text and just before a newline that ends it.
HEX_COLOR_RE(s) ==
  LET n == Len(s)
      body == IF n > 0 /\ s[n] = 10 THEN SubSeq(s, 1, n - 1) ELSE s
      digits == SubSeq(body, 2, Len(body))
  IN IF startswith(body, 35) /\ Len(digits) \in {3, 6} /\ AllIn(digits, hexdigits)
     THEN digits
     ELSE Missing

\* u''.join(2 * s for s in hex_digits)
Doubled(s) == Join([i \in 1..Len(s) |-> <<s[i], s[i]>>], 1, Len(s))

normalize_hex(hex_value) ==
  LET match == HEX_COLOR_RE(hex_value)
      hex_digits == IF Len(match) = 3 THEN Doubled(match) ELSE match
  IN IF match = Missing THEN Raise("ValueError")
     ELSE Ok(<<35>> \o lower(hex_digits))

\* the clipping at the upper end only
ClipAbove(value) == IF value > 255 THEN 255 ELSE value

_normalize_integer_rgb(value) ==
  IF value < 0 THEN 0
  ELSE IF value > 255 THEN 255
  ELSE value

normalize_integer_triplet(rgb_triplet) ==
  [i \in 1..3 |-> _normalize_integer_rgb(rgb_triplet[i])]

\* the position of the first c in s, 0 when there is none
IndexOf(s, c) ==
  LET at == {i \in 1..Len(s) : s[i] = c}
  IN IF at = {} THEN 0 ELSE Min(at)

\* value.split(u'%')[0]: the text before the first '%'
BeforePercent(value) ==
  LET i == IndexOf(value, 37)
  IN IF i = 0 THEN value ELSE SubSeq(value, 1, i - 1)

Contains(s, c) == \E i \in 1..Len(s) : s[i] = c

\* str.strip(chars) for a set of code points
StripChars(s, chars) ==
  LET kept == {i \in 1..Len(s) : s[i] \notin chars}
      \* the places counted from the end of the text
      back == {i \in 1..Len(s) : s[Len(s) + 1 - i] \notin chars}
  IN IF kept = {} THEN <<>> ELSE SubSeq(s, Min(kept), Len(s) + 1 - Min(back))

\* the value of a Unicode decimal digit (category Nd), -1 for any other
\* code point
DecimalDigitValue(c) ==
  IF c < 128 THEN (IF c \in 48..57 THEN c - 48 ELSE 0 - 1)
  ELSE LET zeros == {z \in 1..Len(DecimalZeros) :
                       DecimalZeros[z] <= c /\ c <= DecimalZeros[z] + 9}
       IN IF zeros = {} THEN 0 - 1
          ELSE c - DecimalZeros[CHOOSE z \in zeros : TRUE]

\* what int() and float() read of a text: a code point below 127 as it is,
\* a wider whitespace as a space, a wider decimal digit as its ASCII digit;
\* the first code point that is none of these becomes '?' and ends the text
TransformDecimalAndSpaceToASCII(s) ==
  LET bad == {i \in 1..Len(s) :
                s[i] >= 127 /\ s[i] \notin Whitespace /\ DecimalDigitValue(s[i]) < 0}
      n == IF bad = {} THEN Len(s) ELSE Min(bad)
  IN [i \in 1..n |->
        IF s[i] < 127 THEN s[i]
        ELSE IF s[i] \in Whitespace THEN 32
        ELSE IF DecimalDigitValue(s[i]) >= 0 THEN 48 + DecimalDigitValue(s[i])
        ELSE 63]

\* the text int() and float() parse: the whitespace they skip around the
\* number is the ASCII whitespace of C, which U+001C..U+001F are not
NumberText(text) ==
  StripChars(TransformDecimalAndSpaceToASCII(text), (9..13) \cup {32})

\* the digit part of a Python numeric literal: ASCII digits, single
\* underscores allowed between digits
DigitPart(s) ==
  /\ s # <<>>
  /\ AllIn(s, (48..57) \cup {95})
  /\ s[1] # 95
  /\ s[Len(s)] # 95
  /\ \A i \in 1..(Len(s) - 1) : ~(s[i] = 95 /\ s[i + 1] = 95)

RECURSIVE DecimalFrom(_, _, _)
DecimalFrom(s, i, acc) ==
  IF i > Len(s) THEN acc
  ELSE IF s[i] = 95 THEN DecimalFrom(s, i + 1, acc)
  ELSE DecimalFrom(s, i + 1, acc * 10 + (s[i] - 48))

Decimal(s) == DecimalFrom(s, 1, 0)

CountDigits(s) == Cardinality({i \in 1..Len(s) : s[i] # 95})

\* the digits of a digit part as numbers 0..9, most significant first,
\* without underscores and without leading zeros; << >> is zero
Digits(s) ==
  LET first == {i \in 1..Len(s) : s[i] \notin {48, 95}}
  IN IF first = {} THEN <<>>
     ELSE LET rest == SubSeq(s, Min(first), Len(s))
          IN SelectSeq([i \in 1..Len(rest) |-> rest[i] - 48], LAMBDA d : d # 47)

Signed(s) == s # <<>> /\ s[1] \in {43, 45}

Unsigned(s) == IF Signed(s) THEN Tail(s) ELSE s

\* sys.get_int_max_str_digits(): the most digits int() reads from a text
int_max_str_digits == 4300

\* an int, of any size, is (-1)^neg * digits; a text of more digits than the
\* interpreter's limit is refused, leading zeros counted, underscores not
IntParsed(t) ==
  IF ~DigitPart(Unsigned(t)) THEN Raise("ValueError")
  ELSE IF CountDigits(Unsigned(t)) > int_max_str_digits THEN Raise("ValueError")
  ELSE Ok([neg |-> startswith(t, 45) /\ Digits(Unsigned(t)) # <<>>,
           digits |-> Digits(Unsigned(t))])

\* int(text): surrounding whitespace and a sign are accepted
int(text) == IntParsed(NumberText(text))

IntExceeds100(n) ==
  ~n.neg /\ (Len(n.digits) > 3 \/ (Len(n.digits) = 3 /\ n.digits # <<1, 0, 0>>))

\* '{}'.format(n) for an int n
IntFormat(n) ==
  (IF n.neg THEN <<45>> ELSE <<>>)
    \o (IF n.digits = <<>> THEN <<48>>
        ELSE [i \in 1..Len(n.digits) |-> 48 + n.digits[i]])

RECURSIVE Pow10(_)
Pow10(k) == IF k = 0 THEN 1 ELSE 10 * Pow10(k - 1)

RECURSIVE Pow2(_)
Pow2(k) == IF k = 0 THEN 1 ELSE 2 * Pow2(k - 1)

RECURSIVE BitLength(_)
BitLength(n) == IF n = 0 THEN 0 ELSE 1 + BitLength(n \div 2)

----------------------------------------------------------------------------
(* The arithmetic of float, an IEEE 754 double.  A natural number of any   *)
(* size is a sequence of limbs below 2^LimbBits, the least significant     *)
(* first and the most significant not zero; << >> is zero.                 *)

LimbBits == 15

Limb == 32768

BigTrim(a) ==
  LET used == {i \in 1..Len(a) : a[i] # 0}
  IN IF used = {} THEN <<>> ELSE SubSeq(a, 1, Max(used))

\* a[lo..hi] * k + carry for 0 <= k <= Limb: its limbs at the places
\* lo..hi, then what it carries on to the place above; the upper half of the
\* places takes the carry of the lower half
RECURSIVE BigMulAdd(_, _, _, _, _)
RECURSIVE BigMulAddOn(_, _, _, _, _)
BigMulAdd(a, k, lo, hi, carry) ==
  IF lo > hi THEN <<carry>>
  ELSE IF lo = hi
       THEN <<(a[lo] * k + carry) % Limb, (a[lo] * k + carry) \div Limb>>
  ELSE BigMulAddOn(a, k, ((lo + hi) \div 2) + 1, hi,
                   BigMulAdd(a, k, lo, (lo + hi) \div 2, carry))

BigMulAddOn(a, k, lo, hi, low) ==
  SubSeq(low, 1, Len(low) - 1) \o BigMulAdd(a, k, lo, hi, low[Len(low)])

BigTimesPlus(a, k, carry) == BigTrim(BigMulAdd(a, k, 1, Len(a), carry))

BigTimes(a, k) == BigTimesPlus(a, k, 0)

\* (rem * Limb^(hi - lo + 1) + a[lo..hi]) divided by k, for 0 < k <= Limb:
\* the limbs of the quotient at the places hi down to lo, then the
\* remainder; the lower half of the places takes the remainder of the upper
RECURSIVE BigDivide(_, _, _, _, _)
RECURSIVE BigDivideOn(_, _, _, _, _)
BigDivide(a, k, lo, hi, rem) ==
  IF lo > hi THEN <<rem>>
  ELSE IF lo = hi
       THEN <<(rem * Limb + a[lo]) \div k, (rem * Limb + a[lo]) % k>>
  ELSE BigDivideOn(a, k, lo, (lo + hi) \div 2,
                   BigDivide(a, k, ((lo + hi) \div 2) + 1, hi, rem))

BigDivideOn(a, k, lo, hi, high) ==
  SubSeq(high, 1, Len(high) - 1) \o BigDivide(a, k, lo, hi, high[Len(high)])

\* the quotient out of what BigDivide gives
BigQuoOf(divided) ==
  BigTrim([i \in 1..(Len(divided) - 1) |-> divided[Len(divided) - i]])

BigQuo(a, k) == BigQuoOf(BigDivide(a, k, 1, Len(a), 0))

BigRem(a, k) == BigDivide(a, k, 1, Len(a), 0)[Len(a) + 1]

\* a * 2^n and a \div 2^n
BigShl(a, n) ==
  IF a = <<>> THEN <<>>
  ELSE [i \in 1..(n \div LimbBits) |-> 0] \o BigTimes(a, Pow2(n % LimbBits))

BigShr(a, n) ==
  IF n \div LimbBits >= Len(a) THEN <<>>
  ELSE BigQuo(SubSeq(a, (n \div LimbBits) + 1, Len(a)), Pow2(n % LimbBits))

\* bit n of a, bit 0 being the least significant
BigBit(a, n) ==
  IF n \div LimbBits >= Len(a) THEN 0
  ELSE (a[(n \div LimbBits) + 1] \div Pow2(n % LimbBits)) % 2

\* some bit of a below bit n is set
BigLowBits(a, n) ==
  \/ \E i \in 1..(n \div LimbBits) : i <= Len(a) /\ a[i] # 0
  \/ /\ n \div LimbBits < Len(a)
     /\ a[(n \div LimbBits) + 1] % Pow2(n % LimbBits) # 0

BigBitLength(a) ==
  IF a = <<>> THEN 0
  ELSE LimbBits * (Len(a) - 1) + BitLength(a[Len(a)])

BigLess(a, b) ==
  \/ Len(a) < Len(b)
  \/ /\ Len(a) = Len(b)
     /\ \E i \in 1..Len(a) :
          a[i] < b[i] /\ \A j \in (i + 1)..Len(a) : a[j] = b[j]

\* a * 10^n + the number whose decimal digits are ds[lo..hi], n being the
\* number of these digits; zeros at the head of a number add nothing
RECURSIVE BigFromDigits(_, _, _, _)
BigFromDigits(ds, lo, hi, a) ==
  IF lo > hi THEN a
  ELSE IF a = <<>> /\ ds[lo] = 0 THEN BigFromDigits(ds, lo + 1, hi, a)
  ELSE IF lo = hi THEN BigTimesPlus(a, 10, ds[lo])
  ELSE BigFromDigits(ds, ((lo + hi) \div 2) + 1, hi,
                     BigFromDigits(ds, lo, (lo + hi) \div 2, a))

\* a * 10^p and a \div 10^k
RECURSIVE BigTimesPow10(_, _)
BigTimesPow10(a, p) ==
  IF a = <<>> THEN <<>>
  ELSE IF p <= 4 THEN BigTimes(a, Pow10(p))
  ELSE BigTimesPow10(BigTimesPow10(a, p \div 2), p - (p \div 2))

RECURSIVE BigQuoPow10(_, _)
BigQuoPow10(a, k) ==
  IF a = <<>> THEN <<>>
  ELSE IF k <= 4 THEN BigQuo(a, Pow10(k))
  ELSE BigQuoPow10(BigQuoPow10(a, k \div 2), k - (k \div 2))

\* 10^k divides a
RECURSIVE BigDividesPow10(_, _)
BigDividesPow10(a, k) ==
  IF k <= 4 THEN BigRem(a, Pow10(k)) = 0
  ELSE /\ BigDividesPow10(a, k \div 2)
       /\ BigDividesPow10(BigQuoPow10(a, k \div 2), k - (k \div 2))

\* the decimal digits of a, most significant first
RECURSIVE BigDigits(_)
BigDigits(a) ==
  IF a = <<>> THEN <<>>
  ELSE Append(BigDigits(BigQuo(a, 10)), BigRem(a, 10))

\* a double is nan, an infinity, or (-1)^neg * mant * 2^exp with mant below
\* 2^53; mant is 2^52 at least unless exp is the least exponent (a
\* subnormal number or a zero), so that equal numbers are equal records
MantBits == 53

MinExp == -1074

MaxExp == 971

NaN == [kind |-> "nan", neg |-> FALSE, mant |-> <<>>, exp |-> 0]

Infinity(neg) == [kind |-> "inf", neg |-> neg, mant |-> <<>>, exp |-> 0]

Finite(neg, mant, exp) ==
  IF mant = <<>> THEN [kind |-> "finite", neg |-> neg, mant |-> <<>>, exp |-> MinExp]
  ELSE IF exp > MaxExp THEN Infinity(neg)
  ELSE [kind |-> "finite", neg |-> neg, mant |-> mant, exp |-> exp]

\* a mantissa that rounding has carried to 2^53 moves up one exponent
Carried(neg, mant, exp) ==
  IF BigBitLength(mant) > MantBits THEN Finite(neg, BigShr(mant, 1), exp + 1)
  ELSE Finite(neg, mant, exp)

\* round to nearest, ties to even: the part cut off is above a half, or is
\* a half and the kept part is odd
RoundsUp(q, sticky, shift) ==
  /\ BigBit(q, shift - 1) = 1
  /\ sticky \/ BigLowBits(q, shift - 1) \/ BigBit(q, shift) = 1

RoundShifted(neg, q, sticky, exp, shift) ==
  IF shift <= 0 THEN Finite(neg, BigShl(q, 0 - shift), exp + shift)
  ELSE Carried(neg,
               IF RoundsUp(q, sticky, shift) THEN BigTimesPlus(BigShr(q, shift), 1, 1)
               ELSE BigShr(q, shift),
               exp + shift)

\* the double nearest to (q + f) * 2^exp, where 0 <= f < 1 and f > 0 exactly
\* when sticky
RoundToDouble(neg, q, sticky, exp) ==
  RoundShifted(neg, q, sticky, exp,
               (IF BigBitLength(q) + exp - MantBits < MinExp THEN MinExp
                ELSE BigBitLength(q) + exp - MantBits) - exp)

\* the bits kept below the unit when dividing by 10^k: enough for the
\* quotient to hold the 53 bits of a mantissa, a rounding bit and one more
Precision(k) == IF 4 * k + 56 > 1076 THEN 1076 ELSE 4 * k + 56

DoubleOfQuotient(neg, num, k, bits) ==
  RoundToDouble(neg, BigQuoPow10(num, k), ~BigDividesPow10(num, k), 0 - bits)

\* the double nearest to (-1)^neg * digits * 10^p (strtod): digits are
\* decimal digits without leading zeros
FloatValue(neg, digits, p) ==
  IF digits = <<>> THEN Finite(neg, <<>>, 0)
  ELSE IF Len(digits) + p > 310 THEN Infinity(neg)
  ELSE IF Len(digits) + p < -330 THEN Finite(neg, <<>>, 0)
  ELSE IF p >= 0
       THEN RoundToDouble(neg, BigTimesPow10(BigFromDigits(digits, 1, Len(digits), <<>>), p),
                          FALSE, 0)
  ELSE DoubleOfQuotient(neg,
                        BigShl(BigFromDigits(digits, 1, Len(digits), <<>>), Precision(0 - p)),
                        0 - p, Precision(0 - p))

\* the position of the first 'e' or 'E' in s, 0 when there is none
ExponentMark(s) ==
  LET at == {i \in 1..Len(s) : s[i] \in {101, 69}}
  IN IF at = {} THEN 0 ELSE Min(at)

\* the limits of strtod: the magnitude an exponent is cut down to, and the
\* most digits of a number and of its fraction
MAX_ABS_EXP == 1100000000

MAX_DIGITS == 1000000000

\* the value of an optionally signed run of digits as strtod reads an
\* exponent: exactly up to nine digits after the leading zeros, and as
\* MAX_ABS_EXP beyond
SignedDecimal(s) ==
  LET magnitude == IF Len(Digits(Unsigned(s))) > 9 THEN MAX_ABS_EXP
                   ELSE Decimal(IntFormat([neg |-> FALSE, digits |-> Digits(Unsigned(s))]))
  IN IF startswith(s, 45) THEN 0 - magnitude ELSE magnitude

\* float() of the text whose parts are whole '.' frac 'e' exponent
FloatParts(neg, whole, frac, exponent) ==
  IF /\ whole # <<>> \/ frac # <<>>
     /\ whole = <<>> \/ DigitPart(whole)
     /\ frac = <<>> \/ DigitPart(frac)
     /\ DigitPart(Unsigned(exponent))
     /\ Len(Digits(whole \o frac)) <= MAX_DIGITS
     /\ CountDigits(frac) <= MAX_DIGITS
  THEN Ok(FloatValue(neg, Digits(whole \o frac),
                     SignedDecimal(exponent) - CountDigits(frac)))
  ELSE Raise("ValueError")

FloatNumber(neg, number, dot, exponent) ==
  FloatParts(neg,
             IF dot = 0 THEN number ELSE SubSeq(number, 1, dot - 1),
             IF dot = 0 THEN <<>> ELSE SubSeq(number, dot + 1, Len(number)),
             exponent)

FloatBody(neg, body, mark) ==
  IF mark = 0 THEN FloatNumber(neg, body, IndexOf(body, 46), <<48>>)
  ELSE FloatNumber(neg, SubSeq(body, 1, mark - 1),
                   IndexOf(SubSeq(body, 1, mark - 1), 46),
                   SubSeq(body, mark + 1, Len(body)))

\* "inf", "infinity" and "nan" in any letter case, else a decimal number
FloatWord(neg, body, word) ==
  IF word \in {<<105, 110, 102>>, <<105, 110, 102, 105, 110, 105, 116, 121>>}
  THEN Ok(Infinity(neg))
  ELSE IF word = <<110, 97, 110>> THEN Ok(NaN)
  ELSE FloatBody(neg, body, ExponentMark(body))

FloatStripped(t) == FloatWord(startswith(t, 45), Unsigned(t), lower(Unsigned(t)))

\* float(text): surrounding whitespace and a sign are accepted, the sign of
\* a zero is kept
float(text) == FloatStripped(NumberText(text))

FloatIsNegative(x) == x.kind # "nan" /\ x.neg /\ (x.kind = "inf" \/ x.mant # <<>>)

Hundred == RoundToDouble(FALSE, <<100>>, FALSE, 0)

\* x > y for doubles that are not negative
FloatExceeds(x, y) ==
  /\ x.kind # "nan"
  /\ ~x.neg
  /\ \/ x.kind = "inf"
     \/ x.exp > y.exp
     \/ x.exp = y.exp /\ BigLess(y.mant, x.mant)

\* x / d and x * d for a double x and an integer 0 < d <= Limb
FloatDividedBy(x, d) ==
  IF x.kind # "finite" THEN x
  ELSE RoundToDouble(x.neg, BigQuo(BigShl(x.mant, LimbBits), d),
                     BigRem(BigShl(x.mant, LimbBits), d) # 0, x.exp - LimbBits)

FloatTimes(x, d) ==
  IF x.kind # "finite" THEN x
  ELSE RoundToDouble(x.neg, BigTimes(x.mant, d), FALSE, x.exp)

RECURSIVE IntText(_)
IntText(n) ==
  IF n < 0 THEN <<45>> \o IntText(0 - n)
  ELSE IF n < 10 THEN <<48 + n>>
  ELSE Append(IntText(n \div 10), 48 + (n % 10))

RECURSIVE ZeroPadded(_, _)
ZeroPadded(s, width) ==
  IF Len(s) >= width THEN s ELSE ZeroPadded(<<48>> \o s, width)

\* a decimal number 0.d1 d2 ... dn * 10^decpt
Dec(digits, decpt) == [digits |-> digits, decpt |-> decpt]

\* without the zeros at the end of the digits
DecTrimmed(d) ==
  LET used == {i \in 1..Len(d.digits) : d.digits[i] # 0}
  IN IF used = {} THEN Dec(<<>>, 0) ELSE Dec(SubSeq(d.digits, 1, Max(used)), d.decpt)

\* the next number of as many digits
DecNext(d) ==
  LET low == {i \in 1..Len(d.digits) : d.digits[i] # 9}
  IN IF low = {} THEN Dec(<<1>>, d.decpt + 1)
     ELSE Dec([i \in 1..Max(low) |->
                 IF i = Max(low) THEN d.digits[i] + 1 ELSE d.digits[i]],
              d.decpt)

\* the first n digits of d
DecCut(d, n) == Dec(SubSeq(d.digits, 1, n), d.decpt)

DecToDouble(neg, d) ==
  FloatValue(neg, DecTrimmed(d).digits, d.decpt - Len(DecTrimmed(d).digits))

\* of the two n-digit numbers around d, where more is TRUE when the number
\* is above d: the upper one is the nearer, a tie going to the even digit
NearerIsNext(d, more, n) ==
  \/ d.digits[n + 1] > 5
  \/ /\ d.digits[n + 1] = 5
     /\ \/ more
        \/ \E i \in (n + 2)..Len(d.digits) : d.digits[i] # 0
        \/ d.digits[n] % 2 = 1

\* repr: the shortest decimal number that float() reads back as x, the
\* nearest to x of those; d holds the leading digits of x, which has more
\* below them when more is TRUE
RECURSIVE Shortest(_, _, _, _)
Shortest(x, d, more, n) ==
  IF n >= Len(d.digits) THEN DecTrimmed(d)
  ELSE IF DecToDouble(x.neg, DecCut(d, n)) = x
       THEN (IF DecToDouble(x.neg, DecNext(DecCut(d, n))) = x /\ NearerIsNext(d, more, n)
             THEN DecTrimmed(DecNext(DecCut(d, n)))
             ELSE DecTrimmed(DecCut(d, n)))
  ELSE IF DecToDouble(x.neg, DecNext(DecCut(d, n))) = x
       THEN DecTrimmed(DecNext(DecCut(d, n)))
  ELSE Shortest(x, d, more, n + 1)

\* the number of decimal places j that brings x * 10^j to 19 digits or so:
\* x is below 2^(bits + exp), and log10(2) is 0.30103
LeadingPlaces(x) == 19 - (((BigBitLength(x.mant) + x.exp) * 30103) \div 100000)

\* mant * 2^exp * 10^j, without its fraction
Leading(x, j) ==
  IF j >= 0
  THEN (IF x.exp >= 0 THEN BigShl(BigTimesPow10(x.mant, j), x.exp)
        ELSE BigShr(BigTimesPow10(x.mant, j), 0 - x.exp))
  ELSE BigQuoPow10(BigShl(x.mant, x.exp), 0 - j)

\* what Leading leaves out is not zero
LeadingHasMore(x, j) ==
  IF j >= 0 THEN x.exp < 0 /\ BigLowBits(BigTimesPow10(x.mant, j), 0 - x.exp)
  ELSE ~BigDividesPow10(BigShl(x.mant, x.exp), 0 - j)

LeadingDec(ds, j) == Dec(ds, Len(ds) - j)

FloatDigits(x) ==
  Shortest(x, LeadingDec(BigDigits(Leading(x, LeadingPlaces(x))), LeadingPlaces(x)),
           LeadingHasMore(x, LeadingPlaces(x)), 1)

DigitChars(ds) == [i \in 1..Len(ds) |-> 48 + ds[i]]

Zeros(n) == [i \in 1..n |-> 48]

\* the text of 0.digits * 10^decpt as repr writes it: with an exponent when
\* the point is more than 16 places right of the first digit or 4 or more
\* places left of it (0.0001 is '0.0001', 0.00001 is '1e-05')
DecText(d) ==
  IF d.decpt > 16 \/ d.decpt <= -4
  THEN <<48 + d.digits[1]>>
         \o (IF Len(d.digits) > 1 THEN <<46>> \o DigitChars(Tail(d.digits)) ELSE <<>>)
         \o <<101, IF d.decpt > 0 THEN 43 ELSE 45>>
         \o ZeroPadded(IntText(IF d.decpt > 0 THEN d.decpt - 1 ELSE 1 - d.decpt), 2)
  ELSE IF d.decpt <= 0
       THEN <<48, 46>> \o Zeros(0 - d.decpt) \o DigitChars(d.digits)
  ELSE IF d.decpt >= Len(d.digits)
       THEN DigitChars(d.digits) \o Zeros(d.decpt - Len(d.digits)) \o <<46, 48>>
  ELSE DigitChars(SubSeq(d.digits, 1, d.decpt)) \o <<46>>
         \o DigitChars(SubSeq(d.digits, d.decpt + 1, Len(d.digits)))

\* '{}'.format(x) for a float x: repr(x)
FloatText(x) ==
  IF x.kind = "nan" THEN <<110, 97, 110>>
  ELSE (IF x.neg THEN <<45>> ELSE <<>>)
         \o (IF x.kind = "inf" THEN <<105, 110, 102>>
             ELSE IF x.mant = <<>> THEN <<48, 46, 48>>
             ELSE DecText(FloatDigits(x)))

ZeroPercent == <<48, 37>>

HundredPercent == <<49, 48, 48, 37>>

NormalizedInt(parsed) ==
  IF ~parsed.ok THEN parsed
  ELSE IF parsed.val.neg THEN Ok(ZeroPercent)
  ELSE IF IntExceeds100(parsed.val) THEN Ok(HundredPercent)
  ELSE Ok(IntFormat(parsed.val) \o <<37>>)

NormalizedFloat(parsed) ==
  IF ~parsed.ok THEN parsed
  ELSE IF FloatIsNegative(parsed.val) THEN Ok(ZeroPercent)
  ELSE IF FloatExceeds(parsed.val, Hundred) THEN Ok(HundredPercent)
  ELSE Ok(FloatText(parsed.val) \o <<37>>)

_normalize_percent_rgb(value) ==
  IF Contains(BeforePercent(value), 46)
  THEN NormalizedFloat(float(BeforePercent(value)))
  ELSE NormalizedInt(int(BeforePercent(value)))

\* PercentRGB._make(f(value) for value in rgb_triplet): the first component
\* that raises ends the call
MakeTriplet(r) ==
  IF ~r[1].ok THEN r[1]
  ELSE IF ~r[2].ok THEN r[2]
  ELSE IF ~r[3].ok THEN r[3]
  ELSE Ok(<<r[1].val, r[2].val, r[3].val>>)

normalize_percent_triplet(rgb_triplet) ==
  MakeTriplet([i \in 1..3 |-> _normalize_percent_rgb(rgb_triplet[i])])

----------------------------------------------------------------------------
(* Conversions                                                             *)

\* name_to_hex giving black for a name the table does not have
NameToHexOrBlack(name, spec) ==
  IF spec \notin SUPPORTED_SPECIFICATIONS THEN Raise("ValueError")
  ELSE LET normalized == lower(name)
           hex_value == Get(NAMES_TO_HEX[spec], normalized)
       IN IF hex_value = Missing THEN Ok(<<35, 48, 48, 48, 48, 48, 48>>)
          ELSE Ok(hex_value)

name_to_hex(name, spec) ==
  IF spec \notin SUPPORTED_SPECIFICATIONS THEN Raise("ValueError")
  ELSE LET normalized == lower(name)
           hex_value == Get(NAMES_TO_HEX[spec], normalized)
       IN IF hex_value = Missing THEN Raise("ValueError")
          ELSE Ok(hex_value)

\* the lookup of hex_to_name in the given hex -> name tables
HexToNameIn(tables, hex_value, spec) ==
  IF spec \notin SUPPORTED_SPECIFICATIONS THEN Raise("ValueError")
  ELSE LET normalized == normalize_hex(hex_value)
           name == Get(tables[spec], normalized.val)
       IN IF ~normalized.ok THEN normalized
          ELSE IF name = Missing THEN Raise("ValueError")
          ELSE Ok(name)

hex_to_name(hex_value, spec) ==
  HexToNameIn(HEX_TO_NAMES[iteration], hex_value, spec)

\* hex_to_rgb with the green and the blue byte exchanged
HexToRgbSwapped(hex_value) ==
  LET normalized == normalize_hex(hex_value)
      n == Int16(Tail(normalized.val))
  IN IF ~normalized.ok THEN normalized
     ELSE Ok(<<n \div 65536, n % 256, (n \div 256) % 256>>)

hex_to_rgb(hex_value) ==
  LET normalized == normalize_hex(hex_value)
      n == Int16(Tail(normalized.val))
  IN IF ~normalized.ok THEN normalized
     ELSE Ok(<<n \div 65536, (n \div 256) % 256, n % 256>>)

rgb_to_hex(rgb_triplet) ==
  LET t == normalize_integer_triplet(rgb_triplet)
  IN <<35>> \o Format02x(t[1]) \o Format02x(t[2]) \o Format02x(t[3])

\* '{:.02f}'.format(num / den) for num >= 0, den > 0: the nearest number
\* of hundredths, written with two digits after the point
FormatF2(num, den) ==
  LET q == (num * 100) \div den
      r == (num * 100) % den
      hundredths == IF 2 * r > den \/ (2 * r = den /\ q % 2 = 1) THEN q + 1 ELSE q
  IN IntText(hundredths \div 100) \o <<46>>
       \o ZeroPadded(IntText(hundredths % 100), 2)

specials ==
  << <<255, <<49, 48, 48, 37>>>>,       \* 100%
     <<128, <<53, 48, 37>>>>,           \* 50%
     <<64, <<50, 53, 37>>>>,            \* 25%
     <<32, <<49, 50, 46, 53, 37>>>>,    \* 12.5%
     <<16, <<54, 46, 50, 53, 37>>>>,    \* 6.25%
     <<0, <<48, 37>>>> >>               \* 0%

\* rgb_to_rgb_percent without the table of special cases
RgbToRgbPercentNoSpecials(rgb_triplet) ==
  LET t == normalize_integer_triplet(rgb_triplet)
  IN [i \in 1..3 |-> FormatF2(t[i] * 100, 255) \o <<37>>]

rgb_to_rgb_percent(rgb_triplet) ==
  LET t == normalize_integer_triplet(rgb_triplet)
  IN [i \in 1..3 |->
        IF Find(specials, t[i]) # 0 THEN Get(specials, t[i])
        ELSE FormatF2(t[i] * 100, 255) \o <<37>>]

\* the integer a, written as limbs, as a number
RECURSIVE BigToInt(_, _)
BigToInt(a, i) == IF i > Len(a) THEN 0 ELSE a[i] + Limb * BigToInt(a, i + 1)

\* |x| to the nearest integer, an exact half going to the even neighbour
RoundedMagnitude(x) ==
  IF x.exp >= 0 THEN BigShl(x.mant, x.exp)
  ELSE IF RoundsUp(x.mant, FALSE, 0 - x.exp)
       THEN BigTimesPlus(BigShr(x.mant, 0 - x.exp), 1, 1)
  ELSE BigShr(x.mant, 0 - x.exp)

\* int(round(x)) for a double x (Python 3)
round(x) ==
  IF x.kind = "nan" THEN Raise("ValueError")
  ELSE IF x.kind = "inf" THEN Raise("OverflowError")
  ELSE Ok(IF x.neg THEN 0 - BigToInt(RoundedMagnitude(x), 1)
          ELSE BigToInt(RoundedMagnitude(x), 1))

\* int(round(float(text before '%') / 100 * 255))
_percent_to_integer(percent) ==
  LET parsed == float(BeforePercent(percent))
  IN IF ~parsed.ok THEN parsed
     ELSE round(FloatTimes(FloatDividedBy(parsed.val, 100), 255))

rgb_percent_to_rgb(rgb_percent_triplet) ==
  LET normalized == normalize_percent_triplet(rgb_percent_triplet)
  IN IF ~normalized.ok THEN normalized
     ELSE MakeTriplet([i \in 1..3 |-> _percent_to_integer(normalized.val[i])])

----------------------------------------------------------------------------
(* HTML5 color algorithms.  An argument is [type |-> t, chars |-> s]: a     *)
(* Python value of type t, s being its characters when t is "str".         *)

Str(s) == [type |-> "str", chars |-> s]

html5_parse_simple_color(input) ==
  LET s == input.chars
  IN IF input.type # "str" \/ Len(s) # 7 THEN Raise("ValueError")
     ELSE IF ~startswith(s, 35) THEN Raise("ValueError")
     ELSE IF ~AllIn(Tail(s), hexdigits) THEN Raise("ValueError")
     ELSE Ok(<<Int16(SubSeq(s, 2, 3)), Int16(SubSeq(s, 4, 5)),
               Int16(SubSeq(s, 6, 7))>>)

\* the serialization without the padding to two digits
SerializeUnpadded(simple_color) ==
  <<35>> \o HexText(simple_color[1]) \o HexText(simple_color[2])
         \o HexText(simple_color[3])

html5_serialize_simple_color(simple_color) ==
  <<35>> \o Format02x(simple_color[1]) \o Format02x(simple_color[2])
         \o Format02x(simple_color[3])

\* step 7: code points above U+FFFF become "00"
ReplaceNonBMP(s) ==
  Join([i \in 1..Len(s) |-> IF s[i] > 65535 THEN <<48, 48>> ELSE <<s[i]>>],
       1, Len(s))

\* step 10 keeping the digits and the lowercase letters only
ReplaceNonLowerHex(s) ==
  [i \in 1..Len(s) |-> IF s[i] \in (48..57) \cup (97..102) THEN s[i] ELSE 48]

\* step 10: every character that is not an ASCII hex digit becomes "0"
ReplaceNonHex(s) ==
  [i \in 1..Len(s) |-> IF s[i] \in hexdigits THEN s[i] ELSE 48]

\* step 11: append "0" while the length is zero or not a multiple of three
RECURSIVE PadToThree(_)
PadToThree(s) ==
  IF Len(s) = 0 \/ Len(s) % 3 # 0 THEN PadToThree(Append(s, 48)) ELSE s

\* step 14: drop a leading "0" of all three components while longer than two
RECURSIVE DropLeadingZeros(_)
DropLeadingZeros(c) ==
  IF Len(c[1]) > 2 /\ c[1][1] = 48 /\ c[2][1] = 48 /\ c[3][1] = 48
  THEN DropLeadingZeros([i \in 1..3 |-> Tail(c[i])])
  ELSE c

\* steps 7-20 of the legacy algorithm, for a stripped text that is neither
\* a keyword nor a three-digit colour
LegacyComponents(stripped) ==
  LET replaced == ReplaceNonBMP(stripped)
      truncated == IF Len(replaced) > 128 THEN SubSeq(replaced, 1, 128)
                   ELSE replaced
      unhashed == IF startswith(truncated, 35) THEN Tail(truncated)
                  ELSE truncated
      padded == PadToThree(ReplaceNonHex(unhashed))
      length == Len(padded) \div 3
      split == <<SubSeq(padded, 1, length),
                 SubSeq(padded, length + 1, length * 2),
                 SubSeq(padded, length * 2 + 1, Len(padded))>>
      last8 == IF length > 8
               THEN [i \in 1..3 |-> SubSeq(split[i], length - 7, length)]
               ELSE split
      dropped == DropLeadingZeros(last8)
      first2 == IF Len(dropped[1]) > 2
                THEN [i \in 1..3 |-> SubSeq(dropped[i], 1, 2)]
                ELSE dropped
  IN <<Int16(first2[1]), Int16(first2[2]), Int16(first2[3])>>

TRANSPARENT == <<116, 114, 97, 110, 115, 112, 97, 114, 101, 110, 116>>

IsTransparentExactCase(stripped) == stripped = TRANSPARENT

\* step 4: input.lower() == u"transparent"
IsTransparent(stripped) == lower(stripped) = TRANSPARENT

IsShorthand(stripped) ==
  /\ Len(stripped) = 4
  /\ startswith(stripped, 35)
  /\ AllIn(Tail(stripped), hexdigits)

ShorthandTimes16(stripped) ==
  <<HexDigitValue(stripped[2]) * 16, HexDigitValue(stripped[3]) * 16,
    HexDigitValue(stripped[4]) * 16>>

\* step 6: each of the three hex digits, multiplied by 17
Shorthand(stripped) ==
  <<HexDigitValue(stripped[2]) * 17, HexDigitValue(stripped[3]) * 17,
    HexDigitValue(stripped[4]) * 17>>

\* the legacy algorithm with the empty-text check made after the stripping
LegacyStripFirst(input) ==
  LET stripped == strip(input.chars)
      keyword_hex == Get(CSS3_NAMES_TO_HEX, lower(stripped))
  IN IF input.type # "str" THEN Raise("ValueError")
     ELSE IF stripped = <<>> THEN Raise("ValueError")
     ELSE IF IsTransparent(stripped) THEN Raise("ValueError")
     ELSE IF keyword_hex # Missing
          THEN html5_parse_simple_color(Str(keyword_hex))
     ELSE IF IsShorthand(stripped) THEN Ok(Shorthand(stripped))
     \* input.encode('utf_32_le') refuses a lone surrogate
     ELSE IF \E i \in 1..Len(stripped) : stripped[i] \in 55296..57343
          THEN Raise("UnicodeEncodeError")
     ELSE Ok(LegacyComponents(stripped))

html5_parse_legacy_color(input) ==
  LET stripped == strip(input.chars)
      keyword_hex == Get(CSS3_NAMES_TO_HEX, lower(stripped))
  IN IF input.type # "str" THEN Raise("ValueError")
     ELSE IF input.chars = <<>> THEN Raise("ValueError")
     ELSE IF IsTransparent(stripped) THEN Raise("ValueError")
     ELSE IF keyword_hex # Missing
          THEN html5_parse_simple_color(Str(keyword_hex))
     ELSE IF IsShorthand(stripped) THEN Ok(Shorthand(stripped))
     \* input.encode('utf_32_le') refuses a lone surrogate
     ELSE IF \E i \in 1..Len(stripped) : stripped[i] \in 55296..57343
          THEN Raise("UnicodeEncodeError")
     ELSE Ok(LegacyComponents(stripped))

----------------------------------------------------------------------------
(* The calls made to the module                                            *)

MaxHexLen == 5
MaxLegacyLen == 4
MaxPercentLen == 4

\* all texts over the alphabet of at most n characters
TextsUpTo(alphabet, n) == UNION {[1..k -> alphabet] : k \in 0..n}

\* ASCII letters in upper case, a spelling the lookups must fold back
AsciiUpper(s) ==
  [i \in 1..Len(s) |-> IF s[i] \in 97..122 THEN s[i] - 32 ELSE s[i]]

Repeat(c, n) == [i \in 1..n |-> c]

Specifications == SUPPORTED_SPECIFICATIONS \cup {"css4"}

TableNames == {CSS3_NAMES_TO_HEX[i][1] : i \in 1..Len(CSS3_NAMES_TO_HEX)}
                \cup {CSS21_NAMES_TO_HEX[i][1] : i \in 1..Len(CSS21_NAMES_TO_HEX)}

TableHexes == {CSS3_NAMES_TO_HEX[i][2] : i \in 1..Len(CSS3_NAMES_TO_HEX)}
                \cup {CSS21_NAMES_TO_HEX[i][2] : i \in 1..Len(CSS21_NAMES_TO_HEX)}

OverrideNames == {CSS3_OVERRIDES[i][2] : i \in 1..Len(CSS3_OVERRIDES)}

OverrideHexes == {CSS3_OVERRIDES[i][1] : i \in 1..Len(CSS3_OVERRIDES)}

RED == <<114, 101, 100>>

OtherNames ==
  { RED,
    <<103, 114, 97, 121>>,                                  \* gray
    <<110, 111, 116, 45, 97, 45, 99, 111, 108, 111, 114>>,  \* not-a-color
    <<304>>,                                                \* U+0130
    \* U+212A (kelvin sign), then the rest of the Turkish names of red and cobalt
    <<75, 305, 114, 109, 305, 122, 305, 115, 305>>,
    <<75, 111, 98, 97, 108, 116, 305>>,
    <<65330, 65317, 65316>>,                                  \* 'RED' in fullwidth letters
    <<913, 931>>,                                             \* capital alpha, capital sigma
    <<>> }

Names ==
  LET base == TableNames \cup OverrideNames \cup OtherNames
  IN base \cup {AsciiUpper(n) : n \in base}

HexSample == {48, 97, 70}

SixDigits == [1..6 -> HexSample]

ThreeDigits == [1..3 -> HexSample]

HexSuffixes == {<<>>, <<10>>, <<10, 10>>, <<32>>}

\* '#' and 3 or 6 hex digits, alone or with something after them
HexShaped ==
  {<<35>> \o d \o x : d \in ThreeDigits \cup SixDigits, x \in HexSuffixes}

HexAlphabet == {35, 48, 97, 70, 103, 10}

HexTexts ==
  TextsUpTo(HexAlphabet, MaxHexLen) \cup HexShaped \cup TableHexes
    \cup {<<35, 49, 50, 51, 52, 53, 54>>, <<35, 102, 102, 56, 56, 48, 48>>}

KnownHexes ==
  TableHexes \cup OverrideHexes
    \cup {AsciiUpper(h) : h \in TableHexes}
    \cup {<<35, 102, 48, 102>>, <<35, 70, 70, 70>>, <<35, 48, 48, 48>>,
          <<35, 49, 50, 51, 52, 53, 54>>, <<35, 102, 102>>,
          <<102, 102, 48, 48, 48, 48>>, <<35, 48, 48, 56, 48, 56, 48, 10>>}

IntSample == {-5, 0, 1, 15, 16, 32, 64, 127, 128, 136, 254, 255, 256, 300}

IntTriplets == IntSample \X IntSample \X IntSample

PercentAlphabet == {37, 45, 46, 48, 53, 120, 32}

PercentSample ==
  { <<53, 48>>,                      \* 50
    <<53, 48, 37, 120>>,             \* 50%x
    <<53, 48, 32, 37>>,              \* 50 %
    <<43, 53, 37>>,                  \* +5%
    <<53, 95, 48, 37>>,              \* 5_0%
    <<48, 48, 55, 37>>,              \* 007%
    <<49, 50, 46, 53, 37>>,          \* 12.5%
    <<54, 46, 50, 53, 37>>,          \* 6.25%
    <<57, 57, 46, 57, 57, 37>>,      \* 99.99%
    <<49, 48, 48, 46, 48, 37>>,      \* 100.0%
    <<49, 48, 48, 46, 53, 37>>,      \* 100.5%
    <<45, 48, 46, 48, 37>>,          \* -0.0%
    <<45, 48, 46, 53, 37>>,          \* -0.5%
    <<51, 48, 46, 48, 37>>,          \* 30.0%
    <<49, 46, 53, 46, 37>>,          \* 1.5.%
    <<48, 46, 48, 48, 48, 49, 37>>,                  \* 0.0001%
    <<48, 46, 48, 48, 48, 48, 49, 37>>,              \* 0.00001%
    <<48, 46, 48, 48, 48, 48, 49, 53, 37>>,          \* 0.000015%
    <<45, 48, 46, 48, 48, 48, 48, 49, 37>>,          \* -0.00001%
    <<49, 101, 45, 48, 53, 37>>,                     \* 1e-05%
    <<49, 46, 53, 101, 45, 48, 53, 37>>,             \* 1.5e-05%
    <<49, 46, 53, 69, 43, 49, 37>>,                  \* 1.5E+1%
    <<49, 46, 101, 51, 37>>,                         \* 1.e3%
    <<49, 46, 53, 101, 37>>,                         \* 1.5e%
    \* 50% in Arabic-Indic digits
    <<1637, 1632, 37>>,
    \* 50% in fullwidth digits
    <<65301, 65296, 37>>,
    \* 5.5% with an Arabic-Indic 5
    <<53, 46, 1637, 37>>,
    \* 5, U+001C, %
    <<53, 28, 37>>,
    \* 5.5, U+001C, %
    <<53, 46, 53, 28, 37>>,
    \* U+00A0, 5.5, U+2003, %
    <<160, 53, 46, 53, 32, 37>>,
    \* -1.5e-400%
    <<45, 49, 46, 53, 101, 45, 52, 48, 48, 37>>,
    \* 25.e-325%
    <<50, 53, 46, 101, 45, 51, 50, 53, 37>>,
    \* 1.e400%
    <<49, 46, 101, 52, 48, 48, 37>>,
    \* 0.1000000000000000055%
    <<48, 46, 49, 48, 48, 48, 48, 48, 48, 48, 48, 48, 48, 48, 48, 48, 48, 48, 48, 53, 53, 37>>,
    \* 100.00000000000000001%
    <<49, 48, 48, 46, 48, 48, 48, 48, 48, 48, 48, 48, 48, 48, 48, 48, 48, 48, 48, 48, 49, 37>>,
    \* as many digits 1 as int() reads, and one more
    Repeat(49, int_max_str_digits) \o <<37>>,
    Repeat(49, int_max_str_digits + 1) \o <<37>>,
    \* '-' and one digit more than int() reads
    <<45>> \o Repeat(49, int_max_str_digits + 1) \o <<37>>,
    \* 5% after as many zeros as int() reads
    Repeat(48, int_max_str_digits) \o <<53, 37>>,
    \* one digit more than int() reads and a '.', which float() reads
    Repeat(49, int_max_str_digits + 1) \o <<46, 37>>,
    \* 1.5e0000000001%
    <<49, 46, 53, 101>> \o Repeat(48, 9) \o <<49, 37>>,
    \* .00000000015e0000000011%
    <<46>> \o Repeat(48, 9) \o <<49, 53, 101>> \o Repeat(48, 8) \o <<49, 49, 37>>,
    \* 1.e-999999999% and 1.e1000000000%
    <<49, 46, 101, 45>> \o Repeat(57, 9) \o <<37>>,
    <<49, 46, 101, 49>> \o Repeat(48, 9) \o <<37>> }

MaxOverPercent == 5

IntegerPercents ==
  {IntText(n) \o <<37>> : n \in (0 - MaxOverPercent)..(100 + MaxOverPercent)}

PercentTexts ==
  TextsUpTo(PercentAlphabet, MaxPercentLen) \cup PercentSample
    \cup IntegerPercents

\* triplets in which one component ranges over S, the others being fill
Varying(S, fill) ==
  {<<s, fill, fill>> : s \in S} \cup {<<fill, s, fill>> : s \in S}
    \cup {<<fill, fill, s>> : s \in S}

\* the sampled triplets, and every component value from below 0 to above
\* 255 at each of the three positions
ComponentRange == (-5)..260

IntegerTriplets == IntTriplets \cup Varying(ComponentRange, 128)

PercentTriplets ==
  Varying(PercentTexts, <<53, 48, 37>>) \cup Varying(IntegerPercents, <<120>>)

HexPairs == [1..2 -> hexdigits]

\* '#' and six hex digits: every pair of digits at each of the three
\* positions, and every text of six sampled digits
SimpleColorTexts ==
  {<<35>> \o t[1] \o t[2] \o t[3] : t \in Varying(HexPairs, <<48, 48>>)}
    \cup {<<35>> \o d : d \in SixDigits}
    \cup {<<35, 49, 65, 50, 66, 51, 99>>}

SimpleInputs ==
  {Str(s) : s \in SimpleColorTexts \cup HexTexts}
    \cup {[type |-> "bytes", chars |-> <<>>], [type |-> "NoneType", chars |-> <<>>]}

LegacyAlphabet == {35, 48, 49, 97, 70, 103, 32, 128512, 55296}

Padded(S) ==
  S \cup {<<32>> \o s : s \in S} \cup {s \o <<10>> : s \in S}
    \cup {<<9, 32>> \o s \o <<32, 10>> : s \in S}

ShorthandDigits == {48, 49, 57, 97, 102, 65, 70}

Shorthands == {<<35>> \o d : d \in [1..3 -> ShorthandDigits]}

Keywords ==
  LET words == TableNames \cup {TRANSPARENT, RED}
  IN words \cup {AsciiUpper(k) : k \in words}
       \cup {<<AsciiUpper(k)[1]>> \o Tail(k) : k \in words}

LongTexts ==
  { Repeat(49, 128) \o <<50, 51>>,
    Repeat(48, 127) \o <<128512, 49, 50>>,
    <<35>> \o Repeat(97, 128) \o <<98>>,
    Repeat(103, 130),
    Repeat(48, 9) \o Repeat(49, 9) \o Repeat(50, 9),
    Repeat(48, 7) \o <<49, 50, 51>> \o Repeat(48, 8) \o <<52, 53>>
      \o Repeat(48, 9) \o <<54>>,
    Repeat(49, 8) \o Repeat(50, 8) \o Repeat(51, 8),
    <<48, 49, 50, 48, 51, 52, 48, 53, 54>>,
    <<35, 102, 102, 56, 56, 48, 48>>,
    <<102, 102, 56, 56, 48, 48>>,
    <<99, 104, 117, 99, 107, 110, 111, 114, 114, 105, 115>> }

LegacyTexts ==
  TextsUpTo(LegacyAlphabet, MaxLegacyLen) \cup Padded(Shorthands)
    \cup Padded(Keywords) \cup LongTexts
    \cup {Repeat(32, 2), <<10, 9>>, <<160, 12288>>, Repeat(32, 130),
          <<75, 305, 114, 109, 305, 122, 305, 115, 305>>,
          <<75, 111, 98, 97, 108, 116, 305>>}
    \cup SimpleColorTexts

LegacyInputs ==
  {Str(s) : s \in LegacyTexts}
    \cup {[type |-> "bytes", chars |-> <<>>], [type |-> "NoneType", chars |-> <<>>],
          [type |-> "int", chars |-> <<>>]}

Pending == [ok |-> FALSE, err |-> "pending"]

----------------------------------------------------------------------------
(* The state machine: the module is imported, one call is made, it returns *)

Init ==
  /\ iteration \in IterationOrders
  /\ \/ call \in [fn : {"name_to_hex"}, name : Names, spec : Specifications]
     \/ call \in [fn : {"hex_to_name"}, hex_value : KnownHexes, spec : Specifications]
     \/ call \in [fn : {"normalize_hex"}, hex_value : HexTexts]
     \/ call \in [fn : {"hex_to_rgb"}, hex_value : HexTexts]
     \/ call \in [fn : {"normalize_integer_triplet"}, rgb_triplet : IntegerTriplets]
     \/ call \in [fn : {"rgb_to_hex"}, rgb_triplet : IntegerTriplets]
     \/ call \in [fn : {"rgb_to_rgb_percent"}, rgb_triplet : IntegerTriplets]
     \/ call \in [fn : {"normalize_percent_triplet"}, rgb_triplet : PercentTriplets]
     \/ call \in [fn : {"rgb_percent_to_rgb"}, rgb_percent_triplet : PercentTriplets]
     \/ call \in [fn : {"html5_parse_simple_color"}, input : SimpleInputs]
     \/ call \in [fn : {"html5_serialize_simple_color"}, simple_color : IntegerTriplets]
     \/ call \in [fn : {"html5_parse_legacy_color"}, input : LegacyInputs]
  /\ result = Pending
  /\ pc = "call"

Return(value) ==
  /\ pc = "call"
  /\ result' = value
  /\ pc' = "done"
  /\ UNCHANGED <<iteration, call>>

NameToHex ==
  /\ call.fn = "name_to_hex"
  /\ Return(name_to_hex(call.name, call.spec))

HexToName ==
  /\ call.fn = "hex_to_name"
  /\ Return(hex_to_name(call.hex_value, call.spec))

NormalizeHex ==
  /\ call.fn = "normalize_hex"
  /\ Return(normalize_hex(call.hex_value))

HexToRgb ==
  /\ call.fn = "hex_to_rgb"
  /\ Return(hex_to_rgb(call.hex_value))

NormalizeIntegerTriplet ==
  /\ call.fn = "normalize_integer_triplet"
  /\ Return(Ok(normalize_integer_triplet(call.rgb_triplet)))

RgbToHex ==
  /\ call.fn = "rgb_to_hex"
  /\ Return(Ok(rgb_to_hex(call.rgb_triplet)))

RgbToRgbPercent ==
  /\ call.fn = "rgb_to_rgb_percent"
  /\ Return(Ok(rgb_to_rgb_percent(call.rgb_triplet)))

NormalizePercentTriplet ==
  /\ call.fn = "normalize_percent_triplet"
  /\ Return(normalize_percent_triplet(call.rgb_triplet))

RgbPercentToRgb ==
  /\ call.fn = "rgb_percent_to_rgb"
  /\ Return(rgb_percent_to_rgb(call.rgb_percent_triplet))

Html5ParseSimpleColor ==
  /\ call.fn = "html5_parse_simple_color"
  /\ Return(html5_parse_simple_color(call.input))

Html5SerializeSimpleColor ==
  /\ call.fn = "html5_serialize_simple_color"
  /\ Return(Ok(html5_serialize_simple_color(call.simple_color)))

Html5ParseLegacyColor ==
  /\ call.fn = "html5_parse_legacy_color"
  /\ Return(html5_parse_legacy_color(call.input))

Next ==
  \/ NameToHex
  \/ HexToName
  \/ NormalizeHex
  \/ HexToRgb
  \/ NormalizeIntegerTriplet
  \/ RgbToHex
  \/ RgbToRgbPercent
  \/ NormalizePercentTriplet
  \/ RgbPercentToRgb
  \/ Html5ParseSimpleColor
  \/ Html5SerializeSimpleColor
  \/ Html5ParseLegacyColor

Spec == Init /\ [][Next]_vars

Done(fn) == pc = "done" /\ call.fn = fn

----------------------------------------------------------------------------
(* Properties                                                              *)

LowerHexDigits == (48..57) \cup (97..102)

IsNormalizedHex(h) ==
  Len(h) = 7 /\ h[1] = 35 /\ \A i \in 2..7 : h[i] \in LowerHexDigits

IsSimpleColor(c) == Len(c) = 3 /\ \A i \in 1..3 : c[i] \in 0..255

\* name is a key of the dialect's name table
InTable(name, spec) ==
  spec \in SUPPORTED_SPECIFICATIONS /\ Find(NAMES_TO_HEX[spec], name) # 0

\* the word spelled in any mixture of upper and lower case
AnyCase(word, s) ==
  Len(s) = Len(word) /\ \A i \in 1..Len(s) : s[i] \in {word[i], word[i] - 32}

\* C1: every hex value a conversion returns is '#' followed by six
\* lowercase hex digits: name_to_hex for the names of a dialect's table,
\* normalize_hex for the values it accepts, rgb_to_hex for integer triplets.
C1_HexValuesAreNormalized ==
  (/\ \/ Done("name_to_hex") /\ InTable(call.name, call.spec)
      \/ Done("normalize_hex")
      \/ Done("rgb_to_hex")
   /\ result.ok)
    => IsNormalizedHex(result.val)

\* C2: for every dialect d and every name n of d's table,
\* hex_to_name(name_to_hex(n, d), d) succeeds and returns a name of d's
\* table that maps to the same hex value.
C2_NameRoundTrip ==
  (Done("name_to_hex") /\ InTable(call.name, call.spec))
    => LET back == hex_to_name(result.val, call.spec)
       IN /\ result.ok
          /\ back.ok
          /\ InTable(back.val, call.spec)
          /\ name_to_hex(back.val, call.spec) = result

NamesMappingTo(spec, hex) ==
  {i \in 1..Len(NAMES_TO_HEX[spec]) : NAMES_TO_HEX[spec][i][2] = hex}

\* C3: a hex value that two or more names of a dialect's table map to has
\* its inverse entry fixed by a hard-coded override, so hex_to_name returns
\* the same name whatever order the name table is walked in.
C3_CollisionsAreOverridden ==
  (Done("hex_to_name") /\ result.ok
     /\ Cardinality(NamesMappingTo(call.spec, normalize_hex(call.hex_value).val)) >= 2)
    => /\ call.spec = CSS3
       /\ normalize_hex(call.hex_value).val \in OverrideHexes
       /\ \A o \in IterationOrders :
            HexToNameIn(HEX_TO_NAMES[o], call.hex_value, call.spec) = result

\* C4: the legacy parser fails at steps 1-4 only: a text that is not empty
\* and whose stripped form is not "transparent" in any case yields a simple
\* color, three integers in 0..255.
C4_LegacyFailsOnlyInSteps1To4 ==
  (Done("html5_parse_legacy_color") /\ call.input.type = "str"
     /\ call.input.chars # <<>>
     /\ ~AnyCase(TRANSPARENT, strip(call.input.chars)))
    => result.ok /\ IsSimpleColor(result.val)

\* C5: html5_parse_legacy_color("red") is the simple color of #ff0000.
C5_RedIsAKeyword ==
  (Done("html5_parse_legacy_color") /\ call.input = Str(RED))
    => result = Ok(<<255, 0, 0>>)

\* C6: the legacy parser rejects, with one and the same error kind, a
\* non-text input, the empty string and every text whose stripped form is
\* "transparent" in any letter case.
C6_LegacyRejections ==
  (Done("html5_parse_legacy_color")
     /\ \/ call.input.type # "str"
        \/ call.input.chars = <<>>
        \/ AnyCase(TRANSPARENT, strip(call.input.chars)))
    => result = Raise("ValueError")

C6_Witness ==
  /\ Done("html5_parse_legacy_color")
  /\ call.input = Str(<<9, 32, 84>> \o Tail(TRANSPARENT) \o <<32, 10>>)
  /\ result = Raise("ValueError")

\* C7: a text that, stripped, is '#' and three hex digits d1 d2 d3 of either
\* case and is no CSS3 keyword parses to (17*d1, 17*d2, 17*d3).
C7_Shorthand ==
  LET t == strip(call.input.chars)
  IN (Done("html5_parse_legacy_color") /\ call.input.type = "str"
        /\ Len(t) = 4 /\ t[1] = 35 /\ AllIn(Tail(t), hexdigits)
        /\ Get(CSS3_NAMES_TO_HEX, lower(t)) = Missing)
       => result = Ok(<<17 * Int16(<<t[2]>>), 17 * Int16(<<t[3]>>),
                        17 * Int16(<<t[4]>>)>>)

C7_Witness ==
  /\ Done("html5_parse_legacy_color")
  /\ call.input = Str(<<35, 49, 97, 102>>)
  /\ result = Ok(<<17, 170, 255>>)

\* C8: normalize_hex returns a value only for '#' followed by exactly 3 or
\* 6 hex digits; any other text, a trailing newline included, is refused.
C8_OnlyExactHexShapes ==
  (Done("normalize_hex") /\ result.ok)
    => /\ Len(call.hex_value) \in {4, 7}
       /\ call.hex_value[1] = 35
       /\ AllIn(Tail(call.hex_value), hexdigits)

\* a "<number>%" text: a decimal number, then '%', then nothing
WellFormedPercent(s) ==
  /\ s # <<>>
  /\ IndexOf(s, 37) = Len(s)
  /\ int(BeforePercent(s)).ok \/ float(BeforePercent(s)).ok

\* C9: normalize_percent_triplet fails for every component that is not a
\* well-formed "<number>%" text, "50" and "50%x" included.
C9_MalformedPercentIsRefused ==
  (Done("normalize_percent_triplet")
     /\ \E i \in 1..3 : ~WellFormedPercent(call.rgb_triplet[i]))
    => result = Raise("ValueError")

\* num / den to the nearest integer, an exact half going away from zero
RoundHalfAway(num, den) == (2 * num + den) \div (2 * den)

\* the number a normalized percentage text writes, as mant / 10^scale: the
\* digits around the point, moved by the exponent when there is one; tiny
\* when the number is below 0.001, which is written as mant 0
PercentNumber(text) ==
  LET t == BeforePercent(text)
      mark == ExponentMark(t)
      number == Unsigned(IF mark = 0 THEN t ELSE SubSeq(t, 1, mark - 1))
      moved == IF mark = 0 THEN 0 ELSE SignedDecimal(SubSeq(t, mark + 1, Len(t)))
      dot == IndexOf(number, 46)
      whole == IF dot = 0 THEN number ELSE SubSeq(number, 1, dot - 1)
      frac == IF dot = 0 THEN <<>> ELSE SubSeq(number, dot + 1, Len(number))
      places == Len(frac) - moved
      tiny == Len(Digits(whole \o frac)) + 3 <= places
  IN [mant |-> IF tiny THEN 0
               ELSE IF places < 0 THEN Decimal(whole \o frac) * Pow10(0 - places)
               ELSE Decimal(whole \o frac),
      scale |-> IF tiny \/ places < 0 THEN 0 ELSE places]

\* C10: rgb_percent_to_rgb gives, for each normalized percentage p,
\* p / 100 * 255 rounded to the nearest integer with exact halves away from
\* zero (30% is 76.5 and gives 77), every component within 0..255.
C10_HalvesRoundAwayFromZero ==
  (Done("rgb_percent_to_rgb") /\ result.ok)
    => \A i \in 1..3 :
         LET p == PercentNumber(
                    normalize_percent_triplet(call.rgb_percent_triplet).val[i])
         IN /\ result.val[i] = RoundHalfAway(p.mant * 255, 100 * Pow10(p.scale))
            /\ result.val[i] \in 0..255

\* C11: a normalizer applied to its own result returns that result:
\* normalize_hex for every hex text it accepts, normalize_integer_triplet
\* for every integer triplet, normalize_percent_triplet for every percentage
\* triplet it accepts.
C11_NormalizersAreIdempotent ==
  /\ (Done("normalize_hex") /\ result.ok)
       => normalize_hex(result.val) = result
  /\ Done("normalize_integer_triplet")
       => normalize_integer_triplet(result.val) = result.val
  /\ (Done("normalize_percent_triplet") /\ result.ok)
       => normalize_percent_triplet(result.val) = result

\* C12: hex_to_rgb and rgb_to_hex are inverse up to normalization:
\* hex_to_rgb(rgb_to_hex(t)) is normalize_integer_triplet(t) for every
\* integer triplet t, rgb_to_hex(hex_to_rgb(h)) is normalize_hex(h) for every
\* accepted hex text h, and the six digits of normalize_hex(h) are the
\* 24-bit number 65536 * red + 256 * green + blue.
C12_HexRgbDuality ==
  /\ Done("rgb_to_hex")
       => hex_to_rgb(result.val) = Ok(normalize_integer_triplet(call.rgb_triplet))
  /\ (Done("hex_to_rgb") /\ normalize_hex(call.hex_value).ok)
       => /\ result.ok
          /\ IsSimpleColor(result.val)
          /\ Ok(rgb_to_hex(result.val)) = normalize_hex(call.hex_value)
          /\ Int16(Tail(normalize_hex(call.hex_value).val))
               = 65536 * result.val[1] + 256 * result.val[2] + result.val[3]

C12_Witness ==
  /\ Done("hex_to_rgb")
  /\ call.hex_value = <<35, 102, 102, 56, 56, 48, 48>>
  /\ result = Ok(<<255, 136, 0>>)

\* the percentage texts the claim fixes for six component values
SpecialPercents ==
  [v \in {0, 16, 32, 64, 128, 255} |->
     CASE v = 0 -> <<48, 37>>
       [] v = 16 -> <<54, 46, 50, 53, 37>>
       [] v = 32 -> <<49, 50, 46, 53, 37>>
       [] v = 64 -> <<50, 53, 37>>
       [] v = 128 -> <<53, 48, 37>>
       [] v = 255 -> <<49, 48, 48, 37>>]

\* text is digits, '.', two digits, '%', and is the number of hundredths
\* nearest to v / 255 * 100, which lies within 0..100
IsTwoDecimalPercentOf(text, v) ==
  LET n == Len(text)
      whole == SubSeq(text, 1, n - 4)
      frac == SubSeq(text, n - 2, n - 1)
      h == 100 * Decimal(whole) + Decimal(frac)
  IN /\ n >= 5
     /\ text[n] = 37
     /\ text[n - 3] = 46
     /\ AllIn(whole, 48..57)
     /\ AllIn(frac, 48..57)
     /\ Len(whole) = 1 \/ whole[1] # 48
     /\ h \in 0..10000
     /\ 2 * (255 * h - 10000 * v) <= 255
     /\ 2 * (10000 * v - 255 * h) <= 255

\* C13: rgb_to_rgb_percent clamps each component to 0..255, gives 0, 16,
\* 32, 64, 128 and 255 their exact texts ("0%", "6.25%", "12.5%", "25%",
\* "50%", "100%") and writes every other value v as v / 255 * 100 with
\* exactly two digits after the point and a '%'; all are within 0..100.
C13_PercentOfInteger ==
  Done("rgb_to_rgb_percent")
    => /\ result.ok
       /\ \A i \in 1..3 :
            LET d == call.rgb_triplet[i]
                v == IF d < 0 THEN 0 ELSE IF d > 255 THEN 255 ELSE d
            IN IF v \in DOMAIN SpecialPercents
               THEN result.val[i] = SpecialPercents[v]
               ELSE IsTwoDecimalPercentOf(result.val[i], v)

C13_Witness ==
  /\ Done("rgb_to_rgb_percent")
  /\ call.rgb_triplet = <<32, 1, 300>>
  /\ result = Ok(<<<<49, 50, 46, 53, 37>>, <<48, 46, 51, 57, 37>>,
                   <<49, 48, 48, 37>>>>)

\* '#' followed by exactly six ASCII hex digits
IsStrictColorText(s) ==
  Len(s) = 7 /\ s[1] = 35 /\ \A i \in 2..7 : s[i] \in hexdigits

\* C14: the simple color parser and serializer are inverse: for every text
\* s that is '#' and six hex digits, serializing the parsed color gives s in
\* lower case; for every triple c of components within 0..255, parsing the
\* serialized text gives c.
C14_SimpleColorRoundTrip ==
  /\ (Done("html5_parse_simple_color") /\ call.input.type = "str"
        /\ IsStrictColorText(call.input.chars))
       => /\ result.ok
          /\ html5_serialize_simple_color(result.val)
               = [i \in 1..7 |-> IF call.input.chars[i] \in 65..70
                                 THEN call.input.chars[i] + 32
                                 ELSE call.input.chars[i]]
  /\ (Done("html5_serialize_simple_color") /\ IsSimpleColor(call.simple_color))
       => html5_parse_simple_color(Str(result.val)) = Ok(call.simple_color)

C14_Witness ==
  /\ Done("html5_parse_simple_color")
  /\ call.input = Str(<<35, 49, 65, 50, 66, 51, 99>>)
  /\ result = Ok(<<26, 43, 60>>)
  /\ html5_serialize_simple_color(result.val) = <<35, 49, 97, 50, 98, 51, 99>>

\* C15: normalize_integer_triplet returns, without raising, the triplet in
\* which each component below 0 has become 0, each component above 255 has
\* become 255 and every other component is unchanged.
C15_Clamping ==
  Done("normalize_integer_triplet")
    => /\ result.ok
       /\ Len(result.val) = 3
       /\ \A i \in 1..3 :
            LET v == call.rgb_triplet[i]
            IN /\ v < 0 => result.val[i] = 0
               /\ v > 255 => result.val[i] = 255
               /\ v \in 0..255 => result.val[i] = v

C15_Witness ==
  /\ Done("normalize_integer_triplet")
  /\ call.rgb_triplet = <<-5, 300, 128>>
  /\ result = Ok(<<0, 255, 128>>)

NOT_A_COLOR == <<110, 111, 116, 45, 97, 45, 99, 111, 108, 111, 114>>

\* C16: a lookup of something unknown fails and gives no default:
\* name_to_hex for every name whose lowercased form is no key of the
\* dialect's name table, hex_to_name for every valid hex value that is no
\* key of the dialect's inverse table, both for every dialect other than
\* HTML4, CSS2, CSS21 and CSS3.
C16_UnknownLookupsFail ==
  /\ (Done("name_to_hex") /\ ~InTable(lower(call.name), call.spec))
       => result = Raise("ValueError")
  /\ (Done("hex_to_name") /\ normalize_hex(call.hex_value).ok
        /\ \/ call.spec \notin SUPPORTED_SPECIFICATIONS
           \/ \A i \in 1..Len(HEX_TO_NAMES[iteration][call.spec]) :
                HEX_TO_NAMES[iteration][call.spec][i][1]
                  # normalize_hex(call.hex_value).val)
       => result = Raise("ValueError")

C16_Witness ==
  /\ Done("name_to_hex")
  /\ call.name = NOT_A_COLOR
  /\ call.spec = CSS3
  /\ result = Raise("ValueError")

\* C17: the legacy parser checks for the empty text before it strips
\* whitespace, so a text that is not empty and holds whitespace only is not
\* refused: it goes on as the empty text, is padded to "000" and gives
\* (0, 0, 0).
C17_WhitespaceOnlyIsBlack ==
  (Done("html5_parse_legacy_color") /\ call.input.type = "str"
     /\ call.input.chars # <<>>
     /\ AllIn(call.input.chars, Whitespace))
    => result = Ok(<<0, 0, 0>>)

C17_Witness ==
  /\ Done("html5_parse_legacy_color")
  /\ call.input = Str(<<10, 9>>)
  /\ strip(call.input.chars) = <<>>
  /\ PadToThree(<<>>) = <<48, 48, 48>>
  /\ result = Ok(<<0, 0, 0>>)

\* C18: for every dialect d and every key h of d's hex-to-name table, the
\* entries written by the overrides included, hex_to_name(h, d) returns a
\* name m that is a key of d's name table, and name_to_hex(m, d) is h.
C18_InverseTableConsistent ==
  (/\ Done("hex_to_name")
   /\ call.spec \in SUPPORTED_SPECIFICATIONS
   /\ Find(HEX_TO_NAMES[iteration][call.spec], call.hex_value) # 0)
    => /\ result.ok
       /\ InTable(result.val, call.spec)
       /\ name_to_hex(result.val, call.spec) = Ok(call.hex_value)

\* C19: on a text that is '#' followed by exactly six ASCII hex digits the
\* legacy parser returns what the simple color parser returns: the three
\* pairs of digits read as hexadecimal numbers, nothing dropped or cut.
C19_LegacyAgreesWithSimple ==
  (Done("html5_parse_legacy_color") /\ call.input.type = "str"
     /\ IsStrictColorText(call.input.chars))
    => /\ result.ok
       /\ result = html5_parse_simple_color(call.input)
       /\ \A k \in 1..3 :
            result.val[k] = 16 * HexDigitValue(call.input.chars[2 * k])
                              + HexDigitValue(call.input.chars[2 * k + 1])

C19_Witness ==
  /\ Done("html5_parse_legacy_color")
  /\ call.input = Str(<<35, 49, 65, 50, 66, 51, 99>>)
  /\ html5_parse_simple_color(call.input) = Ok(<<26, 43, 60>>)
  /\ result = Ok(<<26, 43, 60>>)

====
